---- MODULE Spec2Model ----
(***************************************************************************)
(* A model of the rayexec execution core of glaredb:                       *)
(*   - DatabaseContext (database/mod.rs): attach / detach of catalogs;     *)
(*   - the `%` scalar function (functions/scalar/builtin/arith/rem.rs):    *)
(*     signatures, planning and the execution kernel;                      *)
(*   - ComparisonCondition::flip_sides (logical/logical_join.rs);          *)
(*   - QueryPlanner::plan (logical/planner/plan_query.rs) and the output   *)
(*     table refs of the logical nodes (logical_join.rs,                   *)
(*     logical_aggregate.rs, logical_set.rs, logical_copy.rs);             *)
(*   - PipelineBuilder (physical/planner.rs): lowering of leaves,          *)
(*     projections and filters to a chain;                                 *)
(*   - the wire conversions of table references and of COPY TO             *)
(*     (logical/binder/bound_table.rs, logical/resolver/                   *)
(*     resolved_copy_to.rs);                                               *)
(*   - ColumnExpr::datatype (expr/column_expr.rs).                         *)
(* Each subsystem has its own specification over the shared variables; the *)
(* variables of the other subsystems stay at their idle values.            *)
(***************************************************************************)
EXTENDS Integers, Sequences, FiniteSets, TLC

VARIABLES
  catalogs,     \* DatabaseContext.catalogs: HashMap<String, Box<dyn Catalog>>
  db_hist,      \* the last calls made on the DatabaseContext, oldest first
  rem_inputs,   \* the input expressions handed to Rem.plan
  rem_planned,  \* result of Rem.plan: a PlannedScalarFunction or an error
  rem_a,        \* first input array handed to execute
  rem_b,        \* second input array handed to execute
  rem_out,      \* outcome of RemImpl::execute
  cond,         \* a ComparisonCondition
  cond_orig,    \* the condition as constructed
  flips,        \* number of flip_sides calls made on cond
  bind_context, \* BindContext: the table descriptors, indexed by TableRef
  query,        \* the BoundQuery handed to QueryPlanner.plan
  planned,      \* result of QueryPlanner.plan
  node,         \* a logical operator
  out_refs,     \* result of get_output_table_refs on node
  source,       \* PipelineBuilder.source: Option<Box<dyn Source>>
  operators,    \* PipelineBuilder.operators
  completed_chains, \* PipelineBuilder.completed_chains
  pb_last,      \* the last call made on the PipelineBuilder and its outcome
  pb_calls,     \* number of calls made on the PipelineBuilder
  proto_value,  \* a value handed to to_proto
  proto_msg,    \* a wire message
  proto_out,    \* result of from_proto on proto_msg
  col_expr,     \* a ColumnExpr
  col_out       \* result of ColumnExpr::datatype

vars == <<catalogs, db_hist, rem_inputs, rem_planned, rem_a, rem_b, rem_out,
          cond, cond_orig, flips, bind_context, query, planned, node, out_refs,
          source, operators, completed_chains, pb_last, pb_calls,
          proto_value, proto_msg, proto_out, col_expr, col_out>>

db_vars   == <<catalogs, db_hist>>
rem_vars  == <<rem_inputs, rem_planned, rem_a, rem_b, rem_out>>
flip_vars == <<cond, cond_orig, flips>>
plan_vars == <<bind_context, query, planned>>
node_vars == <<node, out_refs>>
phys_vars == <<source, operators, completed_chains, pb_last, pb_calls>>
proto_vars == <<proto_value, proto_msg, proto_out>>
col_vars == <<col_expr, col_out>>

\* A value for "nothing yet" (Option::None, or a call not made yet).
None == [kind |-> "None"]

\* Ok(()). An error is a record of kind "Err" whose msg is the message of
\* RayexecError::new, with the values the message is formatted from.
Ok == [kind |-> "Ok"]

(***************************************************************************)
(* DatabaseContext                                                         *)
(***************************************************************************)

\* Number of distinct user catalogs that can be attached.
MaxCatalogId == 1

\* Number of calls remembered in db_hist.
MaxHist == 3

CatalogNames == {"system", "temp", "x"}

\* A catalog: what it is, and which one of its kind.
Catalog(catalog, id) == [catalog |-> catalog, id |-> id]
SystemCatalog == Catalog("GLOBAL_SYSTEM_CATALOG", 0)
TempCatalog == Catalog("MemoryCatalog(temp)", 0)
UserCatalogs == {Catalog("user", i) : i \in 1..MaxCatalogId}
NoCatalog == Catalog("", 0)

new_with_temp ==
  [n \in {"system", "temp"} |-> IF n = "system" THEN SystemCatalog ELSE TempCatalog]

catalog_exists(cats, name) == name \in DOMAIN cats

AlreadyAttached(name) == [kind |-> "Err", msg |-> "already attached", name |-> name]
DoesntExist(name) == [kind |-> "Err", msg |-> "doesn't exist", name |-> name]
MissingCatalog(name) == [kind |-> "Err", msg |-> "Missing catalog", name |-> name]

get_catalog(cats, name) ==
  IF name \in DOMAIN cats
    THEN [kind |-> "Ok", catalog |-> cats[name]]
    ELSE MissingCatalog(name)

system_catalog(cats) ==
  IF "system" \in DOMAIN cats
    THEN [kind |-> "Ok", catalog |-> cats["system"]]
    ELSE MissingCatalog("system")

\* Mutant: the insert without the contains_key check (the new catalog replaces
\* the attached one).
attach_catalog_unchecked(cats, name, catalog) ==
  [catalogs |-> [n \in (DOMAIN cats) \cup {name} |->
                   IF n = name THEN catalog ELSE cats[n]],
   result |-> Ok]

attach_catalog(cats, name, catalog) ==
  IF name \in DOMAIN cats
    THEN [catalogs |-> cats, result |-> AlreadyAttached(name)]
    ELSE [catalogs |-> [n \in (DOMAIN cats) \cup {name} |->
                          IF n = name THEN catalog ELSE cats[n]],
          result |-> Ok]

\* Mutant: detaching a name that is not attached is not reported.
detach_catalog_silent(cats, name) ==
  [catalogs |-> [n \in (DOMAIN cats) \ {name} |-> cats[n]], result |-> Ok]

detach_catalog(cats, name) ==
  IF name \notin DOMAIN cats
    THEN [catalogs |-> cats, result |-> DoesntExist(name)]
    ELSE [catalogs |-> [n \in (DOMAIN cats) \ {name} |-> cats[n]],
          result |-> Ok]

Remember(hist, call) ==
  IF Len(hist) < MaxHist THEN Append(hist, call) ELSE Append(Tail(hist), call)

AttachCatalog(name, catalog) ==
  LET r == attach_catalog(catalogs, name, catalog) IN
  /\ catalogs' = r.catalogs
  /\ db_hist' = Remember(db_hist,
                  [op |-> "attach", name |-> name, catalog |-> catalog,
                   result |-> r.result])

DetachCatalog(name) ==
  LET r == detach_catalog(catalogs, name) IN
  /\ catalogs' = r.catalogs
  /\ db_hist' = Remember(db_hist,
                  [op |-> "detach", name |-> name, catalog |-> NoCatalog,
                   result |-> r.result])

\* The values the variables of a subsystem keep while another one runs.
DbIdle == catalogs = new_with_temp /\ db_hist = <<>>
RemIdle ==
  rem_inputs = <<>> /\ rem_planned = None /\ rem_a = None /\ rem_b = None /\ rem_out = None
FlipIdle == cond = None /\ cond_orig = None /\ flips = 0
PlanIdle == bind_context = <<>> /\ query = None /\ planned = None
NodeIdle == node = None /\ out_refs = None
PhysIdle ==
  /\ source = None /\ operators = <<>> /\ completed_chains = <<>>
  /\ pb_last = None /\ pb_calls = 0
ProtoIdle == proto_value = None /\ proto_msg = None /\ proto_out = None
ColIdle == col_expr = None /\ col_out = None

InitDb ==
  /\ catalogs = new_with_temp
  /\ db_hist = <<>>
  /\ RemIdle /\ FlipIdle /\ PlanIdle /\ NodeIdle
  /\ PhysIdle /\ ProtoIdle /\ ColIdle

NextDb ==
  \/ \E name \in CatalogNames, c \in UserCatalogs :
       AttachCatalog(name, c) /\ UNCHANGED <<rem_vars, flip_vars, plan_vars, node_vars,
                    phys_vars, proto_vars, col_vars>>
  \/ \E name \in CatalogNames :
       DetachCatalog(name) /\ UNCHANGED <<rem_vars, flip_vars, plan_vars, node_vars,
                    phys_vars, proto_vars, col_vars>>

SpecDb == InitDb /\ [][NextDb]_vars

\* The last call made on the context, and the ones before it.
LastCall == db_hist[Len(db_hist)]

\* C1: attach_catalog(name, c) fails with the "already attached" error whenever
\* `name` is attached when the call is made, and an attach_catalog(name, c) that
\* directly follows a successful detach_catalog(name) succeeds and leaves `name`
\* attached.
C1_AttachDuplicateFails ==
  [][ (db_hist' # db_hist /\ db_hist' # <<>>) =>
        LET call == db_hist'[Len(db_hist')] IN
        /\ (call.op = "attach" /\ catalog_exists(catalogs, call.name))
             => call.result = AlreadyAttached(call.name)
        /\ (/\ call.op = "attach"
            /\ db_hist # <<>>
            /\ LastCall.op = "detach"
            /\ LastCall.name = call.name
            /\ LastCall.result = Ok)
             => /\ call.result = Ok
                /\ catalog_exists(catalogs', call.name)
                /\ catalogs'[call.name] = call.catalog ]_vars

\* Scenario "attach duplicate catalog": attach "x" twice, the second attach
\* fails; detach "x" and attach "x" again succeeds.
C1_Witness ==
  /\ Len(db_hist) = 3
  /\ db_hist[1].op = "attach" /\ db_hist[1].name = "x"
  /\ db_hist[1].result = AlreadyAttached("x")
  /\ db_hist[2].op = "detach" /\ db_hist[2].name = "x" /\ db_hist[2].result = Ok
  /\ db_hist[3].op = "attach" /\ db_hist[3].name = "x" /\ db_hist[3].result = Ok
  /\ catalog_exists(catalogs, "x")

(***************************************************************************)
(* Table descriptors and column expressions                                *)
(***************************************************************************)

MissingTable(ref) == [kind |-> "Err", msg |-> "Missing table", table |-> ref]
MissingColumn(expr) == [kind |-> "Err", msg |-> "Missing column in bind context", column |-> expr]

\* A TableRef is the index of a descriptor in the list; refs start at 0.
get_table(tables, ref) ==
  IF ref \in 0..(Len(tables) - 1)
    THEN [kind |-> "Ok", table |-> tables[ref + 1]]
    ELSE MissingTable(ref)

num_columns(table) == Len(table.column_types)

\* Mutant: the column is looked up one position further.
ColumnExpr_datatype_off_by_one(expr, tables) ==
  LET t == get_table(tables, expr.table_scope) IN
  IF t.kind # "Ok" THEN t
  ELSE IF expr.column + 2 \in DOMAIN t.table.column_types
    THEN [kind |-> "Ok", datatype |-> t.table.column_types[expr.column + 2]]
    ELSE MissingColumn(expr)

\* ColumnExpr::datatype: column_types.get(column) of the table of table_scope.
ColumnExpr_datatype(expr, tables) ==
  LET t == get_table(tables, expr.table_scope) IN
  IF t.kind # "Ok" THEN t
  ELSE IF expr.column + 1 \in DOMAIN t.table.column_types
    THEN [kind |-> "Ok", datatype |-> t.table.column_types[expr.column + 1]]
    ELSE MissingColumn(expr)

(***************************************************************************)
(* The `%` scalar function: signatures and planning                        *)
(***************************************************************************)

FloatTypes == {"Float16", "Float32", "Float64"}
SignedTypes == {"Int8", "Int16", "Int32", "Int64", "Int128"}
UnsignedTypes == {"UInt8", "UInt16", "UInt32", "UInt64", "UInt128"}
IntegerTypes == SignedTypes \cup UnsignedTypes
NumericTypes == FloatTypes \cup IntegerTypes

\* The datatypes columns are drawn from: the numeric types and some others.
DataTypeSeq ==
  << "Float16", "Float32", "Float64",
     "Int8", "Int16", "Int32", "Int64", "Int128",
     "UInt8", "UInt16", "UInt32", "UInt64", "UInt128",
     "Utf8", "Date32", "Decimal64", "Boolean" >>

Rem_name == "%"

Signature(input, return_type) ==
  [input |-> input, variadic |-> None, return_type |-> return_type]

Rem_signatures ==
  << Signature(<<"Float16", "Float16">>, "Float16"),
     Signature(<<"Float32", "Float32">>, "Float32"),
     Signature(<<"Float64", "Float64">>, "Float64"),
     Signature(<<"Int8", "Int8">>, "Int8"),
     Signature(<<"Int16", "Int16">>, "Int16"),
     Signature(<<"Int32", "Int32">>, "Int32"),
     Signature(<<"Int64", "Int64">>, "Int64"),
     Signature(<<"Int128", "Int128">>, "Int128"),
     Signature(<<"UInt8", "UInt8">>, "UInt8"),
     Signature(<<"UInt16", "UInt16">>, "UInt16"),
     Signature(<<"UInt32", "UInt32">>, "UInt32"),
     Signature(<<"UInt64", "UInt64">>, "UInt64"),
     Signature(<<"UInt128", "UInt128">>, "UInt128") >>

\* RemImpl::<S>::new(datatype)
RemImpl_new(storage, datatype) ==
  [impl |-> "RemImpl", storage |-> storage, datatype |-> datatype]

\* One arm of the match in Rem::plan: (a, b) => (RemImpl::<S>::new(d), r).
Arm(a, b, storage, datatype, return_type) ==
  [a |-> a, b |-> b, function_impl |-> RemImpl_new(storage, datatype),
   return_type |-> return_type]

Rem_plan_arms ==
  << Arm("Float16", "Float16", "PhysicalF16", "Float16", "Float16"),
     Arm("Float32", "Float32", "PhysicalF32", "Float32", "Float32"),
     Arm("Float64", "Float64", "PhysicalF64", "Float64", "Float64"),
     Arm("Int8", "Int8", "PhysicalI8", "Int8", "Int8"),
     Arm("Int16", "Int16", "PhysicalI16", "Int16", "Int16"),
     Arm("Int32", "Int32", "PhysicalI32", "Int32", "Int32"),
     Arm("Int64", "Int64", "PhysicalI64", "Int64", "Int64"),
     Arm("Int128", "Int128", "PhysicalI128", "Int128", "Int128"),
     Arm("UInt8", "UInt8", "PhysicalU8", "UInt8", "UInt8"),
     Arm("UInt16", "UInt16", "PhysicalU16", "UInt16", "UInt16"),
     Arm("UInt32", "UInt32", "PhysicalU32", "UInt32", "UInt32"),
     Arm("UInt64", "UInt64", "PhysicalU64", "UInt64", "UInt64"),
     Arm("UInt128", "UInt128", "PhysicalU128", "UInt128", "UInt128") >>

\* plan_check_num_args(func, inputs, expected): an arity error unless the
\* number of inputs is the expected one.
ArityMismatch(function, expected, received) ==
  [kind |-> "Err", msg |-> "ArityMismatch", function |-> function,
   expected |-> expected, received |-> received]

plan_check_num_args(function, inputs, expected) ==
  IF Len(inputs) # expected
    THEN ArityMismatch(function, expected, Len(inputs))
    ELSE Ok

invalid_input_types_error(function, types) ==
  [kind |-> "Err", msg |-> "InvalidInputTypes", function |-> function,
   types |-> types]

PlannedScalarFunction(function, return_type, inputs, function_impl) ==
  [kind |-> "Ok", function |-> function, return_type |-> return_type,
   inputs |-> inputs, function_impl |-> function_impl]

\* Mutant: the match is on the first input's type alone, so a pair of two
\* different numeric types is planned with the first type's kernel.
Rem_plan_first_type_only(table_list, inputs) ==
  LET n == plan_check_num_args(Rem_name, inputs, 2) IN
  IF n.kind # "Ok" THEN n
  ELSE
    LET a == ColumnExpr_datatype(inputs[1], table_list)
        b == ColumnExpr_datatype(inputs[2], table_list)
    IN
    IF a.kind # "Ok" THEN a
    ELSE IF b.kind # "Ok" THEN b
    ELSE
      LET hits == {i \in DOMAIN Rem_plan_arms :
                     /\ Rem_plan_arms[i].a = a.datatype
                     /\ b.datatype \in NumericTypes}
      IN
      IF hits = {}
        THEN invalid_input_types_error(Rem_name, <<a.datatype, b.datatype>>)
        ELSE LET arm == Rem_plan_arms[CHOOSE i \in hits : \A j \in hits : i <= j] IN
             PlannedScalarFunction(Rem_name, arm.return_type, inputs, arm.function_impl)

\* Rem::plan
Rem_plan(table_list, inputs) ==
  LET n == plan_check_num_args(Rem_name, inputs, 2) IN
  IF n.kind # "Ok" THEN n
  ELSE
    LET a == ColumnExpr_datatype(inputs[1], table_list)
        b == ColumnExpr_datatype(inputs[2], table_list)
    IN
    IF a.kind # "Ok" THEN a
    ELSE IF b.kind # "Ok" THEN b
    ELSE
      LET hits == {i \in DOMAIN Rem_plan_arms :
                     /\ Rem_plan_arms[i].a = a.datatype
                     /\ Rem_plan_arms[i].b = b.datatype}
      IN
      IF hits = {}
        THEN invalid_input_types_error(Rem_name, <<a.datatype, b.datatype>>)
        ELSE LET arm == Rem_plan_arms[CHOOSE i \in hits : \A j \in hits : i <= j] IN
             PlannedScalarFunction(Rem_name, arm.return_type, inputs, arm.function_impl)

(***************************************************************************)
(* The `%` scalar function: execution                                      *)
(***************************************************************************)

\* Widths above this one are modelled at this width: the kernel is one generic
\* closure, and the checker's integers cannot hold 64- and 128-bit values.
MaxModelBits == 16

\* Longest input array drawn (the three-row example of rem_i32 is drawn too).
MaxArrayLen == 2

FloatStorages == {"PhysicalF16", "PhysicalF32", "PhysicalF64"}
SignedStorages ==
  {"PhysicalI8", "PhysicalI16", "PhysicalI32", "PhysicalI64", "PhysicalI128"}
UnsignedStorages ==
  {"PhysicalU8", "PhysicalU16", "PhysicalU32", "PhysicalU64", "PhysicalU128"}

StorageBits(storage) ==
  CASE storage \in {"PhysicalI8", "PhysicalU8"} -> 8
    [] storage \in {"PhysicalI16", "PhysicalU16", "PhysicalF16"} -> 16
    [] storage \in {"PhysicalI32", "PhysicalU32", "PhysicalF32"} -> 32
    [] storage \in {"PhysicalI64", "PhysicalU64", "PhysicalF64"} -> 64
    [] storage \in {"PhysicalI128", "PhysicalU128"} -> 128

ModelBits(storage) ==
  IF StorageBits(storage) > MaxModelBits THEN MaxModelBits ELSE StorageBits(storage)

\* T::MIN and T::MAX of the integer type stored as `storage`.
MinValue(storage) ==
  IF storage \in SignedStorages THEN -(2 ^ (ModelBits(storage) - 1)) ELSE 0
MaxValue(storage) ==
  IF storage \in SignedStorages
    THEN 2 ^ (ModelBits(storage) - 1) - 1
    ELSE 2 ^ ModelBits(storage) - 1

\* An array element: a value, a NULL (validity bit unset), or a float NaN.
Value(v) == [tag |-> "Value", v |-> v]
Null == [tag |-> "Null", v |-> 0]
NaN == [tag |-> "NaN", v |-> 0]

Array(datatype, values) == [datatype |-> datatype, values |-> values]
logical_len(array) == Len(array.values)

Panic(msg) == [kind |-> "Panic", msg |-> msg]

Abs(x) == IF x < 0 THEN -x ELSE x

\* Rust's `%` on numbers that do not trap: the remainder of the division
\* truncated towards zero (the result has the sign of the dividend).
TruncRem(x, y) ==
  LET r == Abs(x) % Abs(y) IN IF x < 0 THEN -r ELSE r

\* The closure |a, b, buf| buf.put(&(a % b)) for S::Type: `%` of a primitive
\* integer panics on a zero divisor and on MIN % -1; `%` of a float does not.
Rem_closure(storage, x, y) ==
  IF storage \in FloatStorages
    THEN IF x.tag = "NaN" \/ y.tag = "NaN" \/ y.v = 0
           THEN NaN
           ELSE Value(TruncRem(x.v, y.v))
  ELSE IF y.v = 0
    THEN Panic("attempt to calculate the remainder with a divisor of zero")
  ELSE IF storage \in SignedStorages /\ x.v = MinValue(storage) /\ y.v = -1
    THEN Panic("attempt to calculate the remainder with overflow")
  ELSE Value(TruncRem(x.v, y.v))

LengthMismatch(la, lb) ==
  [kind |-> "Err", msg |-> "length mismatch", left |-> la, right |-> lb]

\* BinaryExecutor::execute::<S, S, _, _> with the closure of RemImpl: pairwise
\* over the rows; a length mismatch is an error; a row is valid when it is valid
\* in both inputs, and the closure runs on the valid rows only. A panic of the
\* closure unwinds out of the call.
BinaryExecutor_execute(storage, a, b, builder_datatype) ==
  IF logical_len(a) # logical_len(b)
    THEN LengthMismatch(logical_len(a), logical_len(b))
  ELSE
    LET valid(i) == a.values[i].tag # "Null" /\ b.values[i].tag # "Null"
        row(i) == IF valid(i) THEN Rem_closure(storage, a.values[i], b.values[i]) ELSE Null
        panics == {i \in DOMAIN a.values : valid(i) /\ "kind" \in DOMAIN row(i)}
    IN
    IF panics # {}
      THEN row(CHOOSE i \in panics : \A j \in panics : i <= j)
      ELSE [kind |-> "Ok",
            array |-> Array(builder_datatype, [i \in DOMAIN a.values |-> row(i)])]

\* RemImpl::<S>::execute
RemImpl_execute(self, inputs) ==
  LET a == inputs[1]
      b == inputs[2]
  IN BinaryExecutor_execute(self.storage, a, b, self.datatype)

\* The table list the inputs of Rem.plan are resolved against: one table with
\* a column of every datatype of DataTypeSeq.
RemTableList ==
  << [column_types |-> DataTypeSeq, column_names |-> DataTypeSeq] >>

col_ref(table_ref, column) == [table_scope |-> table_ref, column |-> column]

\* Most arguments a call of Rem.plan is given.
MaxArgs == 3

\* Input expressions: every column of the table, one column past the end, and
\* the same columns of a table that is not in the list.
RemExprs ==
  {col_ref(t, c) : t \in 0..1, c \in 0..Len(DataTypeSeq)}
\* The expressions the calls with a wrong argument count are drawn from.
RemFewExprs == {col_ref(0, 5), col_ref(0, 13)}

RemPlanInputs ==
  {<<e1, e2>> : e1 \in RemExprs, e2 \in RemExprs}
    \cup UNION {[1..n -> RemFewExprs] : n \in (0..MaxArgs) \ {2}}

\* Values the rows of the first and of the second input are drawn from.
RemSampleA(storage) ==
  IF storage \in SignedStorages THEN {MinValue(storage), -7, 4}
  ELSE IF storage \in UnsignedStorages THEN {0, 7, MaxValue(storage)}
  ELSE {-7, 4}
RemSampleB(storage) ==
  IF storage \in SignedStorages THEN {-3, -1, 0, 2}
  ELSE IF storage \in UnsignedStorages THEN {0, 2, 3}
  ELSE {-3, 0, 2}

ArraysOf(datatype, sample) ==
  {Array(datatype, vs) :
     vs \in UNION {[1..n -> {Value(v) : v \in sample} \cup {Null}] : n \in 0..MaxArrayLen}}

\* Array::from_iter([4, 5, 6]) and Array::from_iter([1, 2, 3]) of rem_i32.
ExampleA(datatype) == Array(datatype, <<Value(4), Value(5), Value(6)>>)
ExampleB(datatype) == Array(datatype, <<Value(1), Value(2), Value(3)>>)

\* One call of Rem.plan, then one call of execute on the planned function.
PlanRem(inputs) ==
  /\ rem_planned = None
  /\ rem_inputs' = inputs
  /\ rem_planned' = Rem_plan(RemTableList, inputs)
  /\ rem_a' = None
  /\ rem_b' = None
  /\ rem_out' = None

ExecuteRem(a, b) ==
  /\ rem_planned.kind = "Ok"
  /\ rem_out = None
  /\ rem_a' = a
  /\ rem_b' = b
  /\ rem_out' = RemImpl_execute(rem_planned.function_impl, <<a, b>>)
  /\ UNCHANGED <<rem_inputs, rem_planned>>

InitRem ==
  /\ rem_inputs = <<>> /\ rem_planned = None
  /\ rem_a = None /\ rem_b = None /\ rem_out = None
  /\ DbIdle /\ FlipIdle /\ PlanIdle /\ NodeIdle
  /\ PhysIdle /\ ProtoIdle /\ ColIdle

NextRem ==
  \/ \E inputs \in RemPlanInputs :
       PlanRem(inputs) /\ UNCHANGED <<db_vars, flip_vars, plan_vars, node_vars,
                    phys_vars, proto_vars, col_vars>>
  \/ /\ rem_planned.kind = "Ok"
     /\ rem_out = None
     /\ \E a \in ArraysOf(rem_planned.function_impl.datatype,
                          RemSampleA(rem_planned.function_impl.storage))
                   \cup {ExampleA(rem_planned.function_impl.datatype)},
           b \in ArraysOf(rem_planned.function_impl.datatype,
                          RemSampleB(rem_planned.function_impl.storage))
                   \cup {ExampleB(rem_planned.function_impl.datatype)} :
          ExecuteRem(a, b) /\ UNCHANGED <<db_vars, flip_vars, plan_vars, node_vars,
                    phys_vars, proto_vars, col_vars>>

SpecRem == InitRem /\ [][NextRem]_vars

\* What the checks of the `%` function read off the state.
RemPlanCalled == rem_planned # None
RemExecuted == rem_out # None
RemDatatype(i) == ColumnExpr_datatype(rem_inputs[i], RemTableList)
RemRowValid(i) == rem_a.values[i].tag # "Null" /\ rem_b.values[i].tag # "Null"
RemRows == DOMAIN rem_a.values
RemSameLength == logical_len(rem_a) = logical_len(rem_b)
RemZeroDivisor(i) == RemRowValid(i) /\ rem_b.values[i].v = 0
RemMinByMinusOne(i) ==
  /\ RemRowValid(i)
  /\ rem_a.values[i].v = MinValue(rem_planned.function_impl.storage)
  /\ rem_b.values[i].v = -1

\* r is the remainder of x / y truncated towards zero: y divides x - r,
\* |r| < |y|, and r is zero or has the sign of x.
IsTruncatedRemainder(x, y, r) ==
  /\ (x - r) % Abs(y) = 0
  /\ Abs(r) < Abs(y)
  /\ (r = 0 \/ ((r < 0) <=> (x < 0)))

\* C2: for every integer type, executing the planned `%` on a batch in which
\* some valid row has divisor 0 returns Err for the whole batch (no panic, no
\* output array).
C2_ZeroDivisorReturnsErr ==
  (/\ RemExecuted
   /\ rem_planned.return_type \in IntegerTypes
   /\ RemSameLength
   /\ \E i \in RemRows : RemZeroDivisor(i))
    => rem_out.kind = "Err"

\* C3: for equal-length, all-valid integer arrays a, b of type T with no zero
\* in b, the function planned for (T, T) returns an array of type T, as long as
\* the inputs, whose i-th element is the truncated remainder a[i] % b[i];
\* [4,5,6] % [1,2,3] = [0,1,0].
C3_ElementwiseTruncatedRemainder ==
  (/\ RemExecuted
   /\ rem_planned.return_type \in IntegerTypes
   /\ RemSameLength
   /\ \A i \in RemRows : RemRowValid(i) /\ rem_b.values[i].v # 0)
    => /\ rem_out.kind = "Ok"
       /\ rem_out.array.datatype = rem_planned.return_type
       /\ rem_out.array.datatype = rem_a.datatype
       /\ logical_len(rem_out.array) = logical_len(rem_a)
       /\ \A i \in RemRows :
            /\ rem_out.array.values[i].tag = "Value"
            /\ IsTruncatedRemainder(rem_a.values[i].v, rem_b.values[i].v,
                                    rem_out.array.values[i].v)
       /\ (rem_a = ExampleA("Int32") /\ rem_b = ExampleB("Int32"))
            => rem_out.array = Array("Int32", <<Value(0), Value(1), Value(0)>>)

\* C4 as claimed: Rem.plan succeeds exactly when given two inputs that resolve
\* to the same numeric type T, the planned return type is then T and matches the
\* (T,T)->T signature; for any other argument count and for any other type pair
\* planning fails with the invalid-input-types error naming the function and
\* the type tuple.
RemSameNumericPair ==
  /\ Len(rem_inputs) = 2
  /\ RemDatatype(1).kind = "Ok"
  /\ RemDatatype(2).kind = "Ok"
  /\ RemDatatype(1).datatype = RemDatatype(2).datatype
  /\ RemDatatype(1).datatype \in NumericTypes

RemOtherTypePair ==
  /\ Len(rem_inputs) = 2
  /\ RemDatatype(1).kind = "Ok"
  /\ RemDatatype(2).kind = "Ok"
  /\ ~RemSameNumericPair

RemPlannedAsSigned ==
  /\ rem_planned.return_type = RemDatatype(1).datatype
  /\ rem_planned.function = Rem_name
  /\ rem_planned.inputs = rem_inputs
  /\ \E i \in DOMAIN Rem_signatures :
       /\ Rem_signatures[i].input = <<RemDatatype(1).datatype, RemDatatype(2).datatype>>
       /\ Rem_signatures[i].return_type = rem_planned.return_type

RemFailsWithInvalidInputTypes ==
  /\ rem_planned.kind = "Err"
  /\ rem_planned.msg = "InvalidInputTypes"
  /\ rem_planned.function = Rem_name

C4_AnyMismatchIsInvalidInputTypes ==
  RemPlanCalled =>
    /\ rem_planned.kind = "Ok" <=> RemSameNumericPair
    /\ RemSameNumericPair => RemPlannedAsSigned
    /\ RemOtherTypePair =>
         /\ RemFailsWithInvalidInputTypes
         /\ rem_planned.types = <<RemDatatype(1).datatype, RemDatatype(2).datatype>>
    /\ Len(rem_inputs) # 2 => RemFailsWithInvalidInputTypes

\* C4, amended: as claimed for two inputs; with any other argument count
\* planning fails with the argument-count error of plan_check_num_args, which
\* names the function, the expected count 2 and the received count, before any
\* datatype is resolved. Every one of the 13 numeric types has its signature.
C4_PlanExactlySameNumericPair ==
  /\ Len(Rem_signatures) = 13
  /\ Cardinality(NumericTypes) = 13
  /\ RemPlanCalled =>
       /\ rem_planned.kind = "Ok" <=> RemSameNumericPair
       /\ RemSameNumericPair => RemPlannedAsSigned
       /\ RemOtherTypePair =>
            /\ RemFailsWithInvalidInputTypes
            /\ rem_planned.types = <<RemDatatype(1).datatype, RemDatatype(2).datatype>>
       /\ Len(rem_inputs) # 2 =>
            rem_planned = ArityMismatch(Rem_name, 2, Len(rem_inputs))

\* Rem.plan was given (Int32, Int64) and failed naming `%` and that pair.
C4_Witness ==
  /\ rem_inputs = <<col_ref(0, 5), col_ref(0, 6)>>
  /\ rem_planned = invalid_input_types_error("%", <<"Int32", "Int64">>)

\* C5: for every signed integer type T, the `%` kernel applied to a row with
\* a = T::MIN and b = -1 yields the wrapped result 0 for that row and the batch
\* execution succeeds.
C5_MinRemMinusOneWraps ==
  (/\ RemExecuted
   /\ rem_planned.return_type \in SignedTypes
   /\ RemSameLength
   /\ \A i \in RemRows : ~RemZeroDivisor(i)
   /\ \E i \in RemRows : RemMinByMinusOne(i))
    => /\ rem_out.kind = "Ok"
       /\ \A i \in RemRows :
            RemMinByMinusOne(i) => rem_out.array.values[i] = Value(0)

(***************************************************************************)
(* ComparisonCondition::flip_sides                                         *)
(***************************************************************************)

\* Largest Int8 literal the operands are drawn from.
MaxLiteral == 2

\* Most flip_sides calls made on one condition.
MaxFlips == 2

ComparisonOperators == {"Eq", "NotEq", "Lt", "LtEq", "Gt", "GtEq"}

\* ComparisonOperator::flip: the operator of the comparison with its operands
\* swapped.
flip(op) ==
  CASE op = "Eq" -> "Eq"
    [] op = "NotEq" -> "NotEq"
    [] op = "Lt" -> "Gt"
    [] op = "LtEq" -> "GtEq"
    [] op = "Gt" -> "Lt"
    [] op = "GtEq" -> "LtEq"

\* Expression::Literal(LiteralExpr { literal: ScalarValue::Int8(v) })
Literal(v) == [expr |-> "Literal", literal |-> [type |-> "Int8", value |-> v]]

FlipExpressions == {Literal(v) : v \in 0..MaxLiteral}

ComparisonCondition(left, right, op) == [left |-> left, right |-> right, op |-> op]

ComparisonConditions ==
  {ComparisonCondition(l, r, op) :
     l \in FlipExpressions, r \in FlipExpressions, op \in ComparisonOperators}

\* Mutant: the left operand is overwritten by the right one instead of swapped.
flip_sides_overwrite(self) ==
  [left |-> self.right, right |-> self.right, op |-> flip(self.op)]

\* Mutant: the operator is flipped but the operands are not swapped.
flip_sides_op_only(self) ==
  [left |-> self.left, right |-> self.right, op |-> flip(self.op)]

\* ComparisonCondition::flip_sides: op = op.flip(); swap(left, right).
flip_sides(self) ==
  [left |-> self.right, right |-> self.left, op |-> flip(self.op)]

\* The truth value of a condition whose operands are literals.
Holds(c) ==
  LET l == c.left.literal.value
      r == c.right.literal.value
  IN CASE c.op = "Eq" -> l = r
       [] c.op = "NotEq" -> l # r
       [] c.op = "Lt" -> l < r
       [] c.op = "LtEq" -> l <= r
       [] c.op = "Gt" -> l > r
       [] c.op = "GtEq" -> l >= r

FlipSides ==
  /\ flips < MaxFlips
  /\ cond' = flip_sides(cond)
  /\ flips' = flips + 1
  /\ UNCHANGED cond_orig

InitFlip ==
  /\ cond \in ComparisonConditions
  /\ cond_orig = cond
  /\ flips = 0
  /\ DbIdle /\ RemIdle /\ PlanIdle /\ NodeIdle
  /\ PhysIdle /\ ProtoIdle /\ ColIdle

NextFlip ==
  FlipSides /\ UNCHANGED <<db_vars, rem_vars, plan_vars, node_vars,
                    phys_vars, proto_vars, col_vars>>

SpecFlip == InitFlip /\ [][NextFlip]_vars

\* C6: applying flip_sides twice restores the condition exactly: left, right
\* and op equal their original values.
C6_FlipTwiceIsIdentity ==
  flips = 2 =>
    /\ cond.left = cond_orig.left
    /\ cond.right = cond_orig.right
    /\ cond.op = cond_orig.op

\* A condition with different operands and an asymmetric operator, flipped twice.
C6_Witness ==
  /\ flips = 2
  /\ cond_orig = ComparisonCondition(Literal(1), Literal(2), "Lt")
  /\ cond = cond_orig

\* C7: flip_sides on (left = a, right = b, op) gives (left = b, right = a,
\* op.flip()) with Lt -> Gt, LtEq -> GtEq and Eq -> Eq, and the flipped condition
\* has the truth value of the original for all values of a and b.
C7_FlipIsSwappedEquivalent ==
  flips = 1 =>
    /\ cond.left = cond_orig.right
    /\ cond.right = cond_orig.left
    /\ cond_orig.op = "Lt" => cond.op = "Gt"
    /\ cond_orig.op = "LtEq" => cond.op = "GtEq"
    /\ cond_orig.op = "Eq" => cond.op = "Eq"
    /\ Holds(cond) <=> Holds(cond_orig)

\* The first case of the test flip_comparison: 1 < 2 flipped to 2 > 1.
C7_Witness ==
  /\ flips = 1
  /\ cond_orig = ComparisonCondition(Literal(1), Literal(2), "Lt")
  /\ cond = ComparisonCondition(Literal(2), Literal(1), "Gt")

(***************************************************************************)
(* Logical nodes and their output table refs                               *)
(***************************************************************************)

Some(x) == [kind |-> "Some", value |-> x]

\* Node<T> { node, location, children }
Node(kind, fields, location, children) ==
  [kind |-> kind, node |-> fields, location |-> location, children |-> children]

\* JoinType: the six plain variants, and LeftMark { table_ref }.
PlainJoinTypes == {"Left", "Right", "Inner", "Full", "Semi", "Anti"}
JoinType(type) == [type |-> type]
LeftMark(table_ref) == [type |-> "LeftMark", table_ref |-> table_ref]

LogicalScan(table_ref, types, names, projection, scan_source) ==
  [table_ref |-> table_ref, types |-> types, names |-> names,
   projection |-> projection, source |-> scan_source]
LogicalProjection(projection_table, projections) ==
  [projection_table |-> projection_table, projections |-> projections]
LogicalFilter(filter) == [filter |-> filter]
LogicalSetop(setop_kind, all, table_ref) ==
  [setop_kind |-> setop_kind, all |-> all, table_ref |-> table_ref]
LogicalAggregate(aggregates_table, group_table, grouping_set_table) ==
  [aggregates_table |-> aggregates_table, aggregates |-> <<>>,
   group_table |-> group_table, group_exprs |-> <<>>,
   grouping_sets |-> None, grouping_set_table |-> grouping_set_table]
LogicalComparisonJoin(join_type, conditions) ==
  [join_type |-> join_type, conditions |-> conditions]
LogicalMagicJoin(mat_ref, join_type, conditions) ==
  [mat_ref |-> mat_ref, join_type |-> join_type, conditions |-> conditions]
LogicalArbitraryJoin(join_type, condition) ==
  [join_type |-> join_type, condition |-> condition]
LogicalCrossJoin == [unit |-> "LogicalCrossJoin"]
LogicalSetVar(name, value) == [name |-> name, value |-> value]
LogicalResetVar(var) == [var |-> var]
LogicalShowVar(var) == [var |-> var]
LogicalCopyTo(source_schema, location, copy_to) ==
  [source_schema |-> source_schema, location |-> location, copy_to |-> copy_to]

JoinKinds == {"ComparisonJoin", "MagicJoin", "ArbitraryJoin"}

RECURSIVE get_output_table_refs(_)
RECURSIVE ConcatChildRefs(_)

\* The output refs of the children, concatenated in child order.
ConcatChildRefs(children) ==
  IF children = <<>> THEN <<>>
  ELSE get_output_table_refs(Head(children)) \o ConcatChildRefs(Tail(children))

\* Node::get_children_table_refs
get_children_table_refs(n) == ConcatChildRefs(n.children)

\* Mutant: LeftMark delegates to every child, as the other join types do, and
\* then appends its ref.
JoinType_output_refs_all_children(self, n) ==
  IF self.type = "LeftMark"
    THEN Append(get_children_table_refs(n), self.table_ref)
    ELSE get_children_table_refs(n)

\* JoinType::output_refs: LeftMark takes the refs of the first child only (none
\* when there is no child) and pushes its table_ref; every other join type
\* takes the refs of all children.
JoinType_output_refs(self, n) ==
  IF self.type = "LeftMark"
    THEN Append(IF n.children # <<>>
                  THEN get_output_table_refs(Head(n.children))
                  ELSE <<>>,
                self.table_ref)
    ELSE get_children_table_refs(n)

\* Mutant: the aggregate also passes the refs of its children on.
Aggregate_get_output_table_refs_with_children(n) ==
  LET refs1 == <<n.node.aggregates_table>>
      refs2 == IF n.node.group_table.kind = "Some"
                 THEN Append(refs1, n.node.group_table.value) ELSE refs1
      refs3 == IF n.node.grouping_set_table.kind = "Some"
                 THEN Append(refs2, n.node.grouping_set_table.value) ELSE refs2
  IN refs3 \o get_children_table_refs(n)

\* LogicalNode for Node<LogicalAggregate>
Aggregate_get_output_table_refs(n) ==
  LET refs1 == <<n.node.aggregates_table>>
      refs2 == IF n.node.group_table.kind = "Some"
                 THEN Append(refs1, n.node.group_table.value) ELSE refs1
  IN IF n.node.grouping_set_table.kind = "Some"
       THEN Append(refs2, n.node.grouping_set_table.value) ELSE refs2

\* Mutant: the cross join delegates to its first child only.
CrossJoin_get_output_table_refs_first_child(n) ==
  IF n.children # <<>> THEN get_output_table_refs(Head(n.children)) ELSE <<>>

\* LogicalNode for Node<LogicalCrossJoin>
CrossJoin_get_output_table_refs(n) == get_children_table_refs(n)

\* LogicalNode for Node<LogicalSetVar>, Node<LogicalResetVar>,
\* Node<LogicalShowVar> and Node<LogicalCopyTo>: Vec::new().
SetVar_get_output_table_refs(n) == <<>>
ResetVar_get_output_table_refs(n) == <<>>
ShowVar_get_output_table_refs(n) == <<>>
\* Mutant: CopyTo delegates to its children, as a Filter does.
CopyTo_get_output_table_refs_delegating(n) == get_children_table_refs(n)
CopyTo_get_output_table_refs(n) == <<>>

\* LogicalNode::get_output_table_refs of a LogicalOperator, by variant. Scan,
\* Projection and SetOp give their own declared ref, Filter delegates to its
\* child.
get_output_table_refs(n) ==
  CASE n.kind = "Scan" -> <<n.node.table_ref>>
    [] n.kind = "Projection" -> <<n.node.projection_table>>
    [] n.kind = "SetOp" -> <<n.node.table_ref>>
    [] n.kind = "Filter" -> get_children_table_refs(n)
    [] n.kind = "Aggregate" -> Aggregate_get_output_table_refs(n)
    [] n.kind \in JoinKinds -> JoinType_output_refs(n.node.join_type, n)
    [] n.kind = "CrossJoin" -> CrossJoin_get_output_table_refs(n)
    [] n.kind = "SetVar" -> SetVar_get_output_table_refs(n)
    [] n.kind = "ResetVar" -> ResetVar_get_output_table_refs(n)
    [] n.kind = "ShowVar" -> ShowVar_get_output_table_refs(n)
    [] n.kind = "CopyTo" -> CopyTo_get_output_table_refs(n)

RECURSIVE SubNodes(_)
\* A node and all the nodes below it.
SubNodes(n) ==
  {n} \cup UNION {SubNodes(n.children[i]) : i \in DOMAIN n.children}

SeqRange(seq) == {seq[i] : i \in DOMAIN seq}

(***************************************************************************)
(* get_output_table_refs applied to a logical node                         *)
(***************************************************************************)

\* Largest TableRef a node is given.
MaxTableRef == 2

NodeRefs == 0..MaxTableRef

\* A Scan of an inline expression list with no columns.
ScanOf(table_ref) ==
  Node("Scan",
       LogicalScan(table_ref, <<>>, <<>>, <<>>,
                   [kind |-> "ExpressionList", rows |-> <<>>]),
       "Any", <<>>)

JoinOf(kind, join_type, children) ==
  Node(kind,
       CASE kind = "ComparisonJoin" -> LogicalComparisonJoin(join_type, <<>>)
         [] kind = "MagicJoin" -> LogicalMagicJoin(0, join_type, <<>>)
         [] kind = "ArbitraryJoin" -> LogicalArbitraryJoin(join_type, Literal(1)),
       "Any", children)

CrossJoinOf(children) == Node("CrossJoin", LogicalCrossJoin, "Any", children)

AggregateOf(aggregates_table, group_table, grouping_set_table, children) ==
  Node("Aggregate",
       LogicalAggregate(aggregates_table, group_table, grouping_set_table),
       "Any", children)

VarNodeOf(kind, children) ==
  Node(kind,
       CASE kind = "SetVar" -> LogicalSetVar("v", Literal(1))
         [] kind = "ResetVar" -> LogicalResetVar("All")
         [] kind = "ShowVar" -> LogicalShowVar("v")
         [] kind = "CopyTo" -> LogicalCopyTo(<<>>, "file", "copy_to"),
       "Any", children)

NodeJoinTypes ==
  {JoinType(t) : t \in PlainJoinTypes} \cup {LeftMark(r) : r \in NodeRefs}

OptionalRefs == {None} \cup {Some(r) : r \in NodeRefs}

Scans == {ScanOf(r) : r \in NodeRefs}

\* No child, one child or two children, each a scan.
ScanChildren == UNION {[1..k -> Scans] : k \in 0..2}

\* Nodes over scans.
ShallowNodes ==
  Scans
    \cup {JoinOf(k, jt, ch) : k \in JoinKinds, jt \in NodeJoinTypes, ch \in ScanChildren}
    \cup {CrossJoinOf(ch) : ch \in ScanChildren}
    \cup {AggregateOf(a, g, gs, ch) :
            a \in NodeRefs, g \in OptionalRefs, gs \in OptionalRefs,
            ch \in {<<>>, <<ScanOf(0)>>, <<ScanOf(MaxTableRef)>>}}
    \cup {VarNodeOf(k, ch) :
            k \in {"SetVar", "ResetVar", "ShowVar", "CopyTo"},
            ch \in {<<>>, <<ScanOf(0)>>}}

\* The children of the deeper nodes: nodes with several refs, one ref, none.
DeepChildren ==
  { JoinOf("ComparisonJoin", JoinType("Inner"), <<ScanOf(0), ScanOf(1)>>),
    JoinOf("ComparisonJoin", LeftMark(2), <<ScanOf(0), ScanOf(1)>>),
    AggregateOf(0, Some(1), None, <<ScanOf(2)>>),
    ScanOf(2),
    VarNodeOf("SetVar", <<>>) }

DeepNodes ==
  {JoinOf(k, jt, <<l, r>>) :
     k \in JoinKinds, jt \in {JoinType("Inner"), JoinType("Semi"), LeftMark(1)},
     l \in DeepChildren, r \in DeepChildren}
    \cup {CrossJoinOf(<<l, r>>) : l \in DeepChildren, r \in DeepChildren}

NodeSample == ShallowNodes \cup DeepNodes

GetOutputTableRefs ==
  /\ node # None
  /\ out_refs = None
  /\ out_refs' = [kind |-> "Ok", refs |-> get_output_table_refs(node)]
  /\ UNCHANGED node

InitNode ==
  /\ node \in NodeSample
  /\ out_refs = None
  /\ DbIdle /\ RemIdle /\ FlipIdle /\ PlanIdle
  /\ PhysIdle /\ ProtoIdle /\ ColIdle

NextNode ==
  GetOutputTableRefs /\ UNCHANGED <<db_vars, rem_vars, flip_vars, plan_vars,
                    phys_vars, proto_vars, col_vars>>

SpecNode == InitNode /\ [][NextNode]_vars

NodeIsLeftMarkJoin ==
  /\ node # None
  /\ node.kind \in JoinKinds
  /\ node.node.join_type.type = "LeftMark"

\* C10 as claimed: for a join node whose join type is LeftMark{table_ref},
\* get_output_table_refs is the refs of the left child, then the refs of the
\* right child, then the LeftMark's table_ref.
C10_LeftMarkRefsOfBothChildren ==
  (NodeIsLeftMarkJoin /\ out_refs # None) =>
    out_refs.refs =
      Append(ConcatChildRefs(node.children), node.node.join_type.table_ref)

\* C10, amended: for a join node whose join type is LeftMark{table_ref},
\* get_output_table_refs is the refs of the first (left) child only, none when
\* the node has no child, with the LeftMark's table_ref appended as the last
\* element; the refs of the right child are not part of the output.
C10_LeftMarkRefsOfLeftChild ==
  (NodeIsLeftMarkJoin /\ out_refs # None) =>
    LET left == IF Len(node.children) >= 1
                  THEN get_output_table_refs(node.children[1]) ELSE <<>>
    IN /\ Len(out_refs.refs) = Len(left) + 1
       /\ \A i \in 1..Len(left) : out_refs.refs[i] = left[i]
       /\ out_refs.refs[Len(out_refs.refs)] = node.node.join_type.table_ref

\* The LeftMark join of the scans of tables 0 and 1 with mark table 2: the
\* output refs are those of the left scan and the mark.
C10_Witness ==
  /\ node = JoinOf("ComparisonJoin", LeftMark(2), <<ScanOf(0), ScanOf(1)>>)
  /\ out_refs # None
  /\ out_refs.refs = <<0, 2>>

\* The number of output refs of the first k children of the node.
RECURSIVE RefsBefore(_, _)
RefsBefore(children, k) ==
  IF k = 0 THEN 0
  ELSE RefsBefore(children, k - 1) + Len(get_output_table_refs(children[k]))

NodeDelegatesToAllChildren ==
  /\ node # None
  /\ \/ node.kind \in JoinKinds /\ node.node.join_type.type \in PlainJoinTypes
     \/ node.kind = "CrossJoin"

\* C11: for ComparisonJoin, MagicJoin and ArbitraryJoin nodes with a join type
\* other than LeftMark, and for CrossJoin nodes, get_output_table_refs is the
\* concatenation, in child order, of the children's get_output_table_refs: the
\* refs of child k sit, in their order, right after those of the children before
\* it, and there is no further ref.
C11_PlainJoinRefsAreChildrenRefs ==
  (NodeDelegatesToAllChildren /\ out_refs # None) =>
    /\ Len(out_refs.refs) = RefsBefore(node.children, Len(node.children))
    /\ \A k \in DOMAIN node.children :
         LET child == get_output_table_refs(node.children[k]) IN
         \A j \in DOMAIN child :
           out_refs.refs[RefsBefore(node.children, k - 1) + j] = child[j]

\* A cross join whose left child is an inner join of the scans of 0 and 1 and
\* whose right child is the scan of 2.
C11_Witness ==
  /\ node = CrossJoinOf(<<JoinOf("ComparisonJoin", JoinType("Inner"),
                                  <<ScanOf(0), ScanOf(1)>>),
                           ScanOf(2)>>)
  /\ out_refs # None
  /\ out_refs.refs = <<0, 1, 2>>

\* C12: an Aggregate node's get_output_table_refs is aggregates_table, then
\* group_table if present, then grouping_set_table if present, whatever the
\* children are: 1 to 3 elements, each a ref the node declares.
C12_AggregateRefsAreDeclaredRefs ==
  (node # None /\ node.kind = "Aggregate" /\ out_refs # None) =>
    LET agg == node.node
        g  == IF agg.group_table = None THEN <<>> ELSE <<agg.group_table.value>>
        gs == IF agg.grouping_set_table = None
                THEN <<>> ELSE <<agg.grouping_set_table.value>>
    IN /\ out_refs.refs = <<agg.aggregates_table>> \o g \o gs
       /\ Len(out_refs.refs) \in 1..3
       /\ SeqRange(out_refs.refs) \subseteq
            {agg.aggregates_table}
              \cup {r \in NodeRefs : agg.group_table = Some(r)}
              \cup {r \in NodeRefs : agg.grouping_set_table = Some(r)}

\* An aggregate over the scan of table MaxTableRef that declares the aggregates
\* table 0 and the grouping set table 1 and no group table: the scanned table is
\* not among the output refs.
C12_Witness ==
  /\ node = AggregateOf(0, None, Some(1), <<ScanOf(MaxTableRef)>>)
  /\ out_refs # None
  /\ out_refs.refs = <<0, 1>>

\* C13: get_output_table_refs of a SetVar, ResetVar, ShowVar or CopyTo node is
\* the empty list, whatever children the node has.
C13_VarAndCopyNodesHaveNoRefs ==
  (/\ node # None
   /\ node.kind \in {"SetVar", "ResetVar", "ShowVar", "CopyTo"}
   /\ out_refs # None)
    => out_refs.refs = <<>>

\* A CopyTo over a scan: the scan has an output ref, the CopyTo has none.
C13_Witness ==
  /\ node = VarNodeOf("CopyTo", <<ScanOf(0)>>)
  /\ get_output_table_refs(node.children[1]) = <<0>>
  /\ out_refs # None
  /\ out_refs.refs = <<>>

(***************************************************************************)
(* QueryPlanner::plan                                                      *)
(***************************************************************************)

\* Most tables pushed to the bind context; TableRef MaxTables is never defined.
MaxTables == 2

\* Most columns of a table.
MaxColumns == 2

ColumnName(i) == CASE i = 1 -> "a" [] i = 2 -> "b" [] OTHER -> "c"

\* A table descriptor: {column_types, column_names}, of equal lengths.
TableOf(n, first_type) ==
  [column_types |-> [i \in 1..n |-> IF i = 1 THEN first_type ELSE "Int32"],
   column_names |-> [i \in 1..n |-> ColumnName(i)]]

TableSample == {TableOf(n, t) : n \in 0..MaxColumns, t \in {"Int32", "Utf8"}}

BindContexts == UNION {[1..k -> TableSample] : k \in 0..MaxTables}

\* The refs defined in a bind context.
DefinedRefs(ctx) == 0..(Len(ctx) - 1)

Ok_node(n) == [kind |-> "Ok", node |-> n]

\* Mutant: a missing table is not an error; the scan gets no columns.
QueryPlanner_plan_values_unchecked(ctx, values) ==
  LET t == get_table(ctx, values.expressions_table)
      table == IF t.kind = "Ok" THEN t.table ELSE TableOf(0, "Int32")
  IN Ok_node(Node("Scan",
                  LogicalScan(values.expressions_table,
                              table.column_types,
                              table.column_names,
                              [i \in 1..num_columns(table) |-> i - 1],
                              [kind |-> "ExpressionList", rows |-> values.rows]),
                  "Any", <<>>))

\* Mutant: the projection is the inclusive range 1..=num_columns.
QueryPlanner_plan_values_projection_from_one(ctx, values) ==
  LET t == get_table(ctx, values.expressions_table) IN
  IF t.kind # "Ok" THEN t
  ELSE Ok_node(Node("Scan",
                    LogicalScan(values.expressions_table,
                                t.table.column_types,
                                t.table.column_names,
                                [i \in 1..num_columns(t.table) |-> i],
                                [kind |-> "ExpressionList", rows |-> values.rows]),
                    "Any", <<>>))

\* The BoundQuery::Values arm of QueryPlanner::plan.
QueryPlanner_plan_values(ctx, values) ==
  LET t == get_table(ctx, values.expressions_table) IN
  IF t.kind # "Ok" THEN t
  ELSE Ok_node(Node("Scan",
                    LogicalScan(values.expressions_table,
                                t.table.column_types,
                                t.table.column_names,
                                [i \in 1..num_columns(t.table) |-> i - 1],
                                [kind |-> "ExpressionList", rows |-> values.rows]),
                    "Any", <<>>))

\* SelectPlanner: a scan of a table of the FROM clause.
SelectPlanner_plan_base_table(ctx, table_ref) ==
  LET t == get_table(ctx, table_ref) IN
  IF t.kind # "Ok" THEN t
  ELSE Ok_node(Node("Scan",
                    LogicalScan(table_ref, t.table.column_types, t.table.column_names,
                                [i \in 1..num_columns(t.table) |-> i - 1],
                                [kind |-> "Table"]),
                    "Any", <<>>))

\* SelectPlanner: the FROM clause, a table or a comparison join of two tables.
SelectPlanner_plan_from(ctx, from) ==
  IF from.kind = "BaseTable" THEN SelectPlanner_plan_base_table(ctx, from.table_ref)
  ELSE
    LET l == SelectPlanner_plan_base_table(ctx, from.left)
        r == SelectPlanner_plan_base_table(ctx, from.right)
    IN IF l.kind # "Ok" THEN l
       ELSE IF r.kind # "Ok" THEN r
       ELSE Ok_node(JoinOf("ComparisonJoin", from.join_type, <<l.node, r.node>>))

\* SelectPlanner::plan: projection over aggregate over filter over the FROM
\* clause; the table refs are those the binder put in the bound select.
SelectPlanner_plan(ctx, select) ==
  LET from == SelectPlanner_plan_from(ctx, select.from) IN
  IF from.kind # "Ok" THEN from
  ELSE
    LET filtered ==
          IF select.filter
            THEN Node("Filter", LogicalFilter(Literal(1)), "Any", <<from.node>>)
            ELSE from.node
        grouped ==
          IF select.aggregates.kind = "Some"
            THEN AggregateOf(select.aggregates.value.aggregates_table,
                             select.aggregates.value.group_table,
                             select.aggregates.value.grouping_set_table,
                             <<filtered>>)
            ELSE filtered
    IN Ok_node(Node("Projection",
                    LogicalProjection(select.projections_table, <<>>),
                    "Any", <<grouped>>))

RECURSIVE QueryPlanner_plan(_, _)

\* SetOpPlanner::plan: a SetOp node over the plans of the two sides.
SetOpPlanner_plan(ctx, setop) ==
  LET l == QueryPlanner_plan(ctx, setop.left)
      r == QueryPlanner_plan(ctx, setop.right)
  IN IF l.kind # "Ok" THEN l
     ELSE IF r.kind # "Ok" THEN r
     ELSE Ok_node(Node("SetOp",
                       LogicalSetop(setop.setop_kind, setop.all, setop.setop_table),
                       "Any", <<l.node, r.node>>))

\* QueryPlanner::plan
QueryPlanner_plan(ctx, q) ==
  CASE q.kind = "Select" -> SelectPlanner_plan(ctx, q.select)
    [] q.kind = "Setop" -> SetOpPlanner_plan(ctx, q.setop)
    [] q.kind = "Values" -> QueryPlanner_plan_values(ctx, q.values)

\* BoundQuery::Values: any table ref, defined in the bind context or not.
RowsSample ==
  { <<>>,
    << <<Literal(1)>> >>,
    << <<Literal(1), Literal(2)>>, <<Literal(2), Literal(0)>> >> }

ValuesQueries ==
  {[kind |-> "Values", values |-> [expressions_table |-> r, rows |-> rows]] :
     r \in 0..MaxTables, rows \in RowsSample}

\* BoundQuery::Select as the binder makes it against ctx: every table ref of the
\* bound select was pushed to ctx.
SelectQueriesOver(ctx, p) ==
  LET last == Len(ctx) - 1 IN
  {[kind |-> "Select",
    select |-> [projections_table |-> p, from |-> from, filter |-> filter,
                aggregates |-> aggregates]] :
     from \in {[kind |-> "BaseTable", table_ref |-> p],
               [kind |-> "Join", left |-> 0, right |-> last,
                join_type |-> JoinType("Inner")],
               [kind |-> "Join", left |-> 0, right |-> last,
                join_type |-> LeftMark(p)]},
     filter \in BOOLEAN,
     aggregates \in
       {None,
        Some([aggregates_table |-> p, group_table |-> None,
              grouping_set_table |-> None]),
        Some([aggregates_table |-> 0, group_table |-> Some(last),
              grouping_set_table |-> Some(p)])}}

SelectQueries(ctx) == UNION {SelectQueriesOver(ctx, p) : p \in DefinedRefs(ctx)}

\* BoundQuery::Setop as the binder makes it against ctx.
SetopQueries(ctx) ==
  {[kind |-> "Setop",
    setop |-> [setop_kind |-> "Union", all |-> all, setop_table |-> t,
               left |-> [kind |-> "Values",
                         values |-> [expressions_table |-> 0, rows |-> <<>>]],
               right |-> [kind |-> "Values",
                          values |-> [expressions_table |-> r, rows |-> <<>>]]]] :
     all \in BOOLEAN, t \in DefinedRefs(ctx), r \in DefinedRefs(ctx)}

BoundQueries(ctx) == ValuesQueries \cup SelectQueries(ctx) \cup SetopQueries(ctx)

Plan ==
  /\ query # None
  /\ planned = None
  /\ planned' = QueryPlanner_plan(bind_context, query)
  /\ UNCHANGED <<bind_context, query>>

InitPlan ==
  /\ bind_context \in BindContexts
  /\ query \in BoundQueries(bind_context)
  /\ planned = None
  /\ DbIdle /\ RemIdle /\ FlipIdle /\ NodeIdle
  /\ PhysIdle /\ ProtoIdle /\ ColIdle

NextPlan ==
  Plan /\ UNCHANGED <<db_vars, rem_vars, flip_vars, node_vars,
                    phys_vars, proto_vars, col_vars>>

SpecPlan == InitPlan /\ [][NextPlan]_vars

C9_ValuesPlansToFullScan ==
  (/\ planned # None
   /\ query.kind = "Values"
   /\ query.values.expressions_table \in DefinedRefs(bind_context))
    => LET table == bind_context[query.values.expressions_table + 1]
           scan == planned.node
       IN /\ planned.kind = "Ok"
          /\ scan.kind = "Scan"
          /\ scan.children = <<>>
          /\ scan.location = "Any"
          /\ scan.node.source.kind = "ExpressionList"
          /\ scan.node.source.rows = query.values.rows
          /\ scan.node.table_ref = query.values.expressions_table
          /\ scan.node.types = table.column_types
          /\ scan.node.names = table.column_names
          /\ Len(scan.node.projection) = Len(table.column_types)
          /\ \A i \in DOMAIN scan.node.projection : scan.node.projection[i] = i - 1

\* VALUES with two rows planned over a table of two columns (Utf8, Int32).
C9_Witness ==
  /\ planned # None /\ planned.kind = "Ok"
  /\ query.kind = "Values"
  /\ Len(query.values.rows) = 2
  /\ planned.node.node.types = <<"Utf8", "Int32">>
  /\ planned.node.node.projection = <<0, 1>>

(***************************************************************************)
(* PipelineBuilder (physical/planner.rs): lowering to operator chains      *)
(***************************************************************************)

\* Most rows of a VALUES list, and most expressions of a row.
MaxValuesRows == 2
MaxValuesCols == 2

\* Most calls made on one PipelineBuilder.
MaxCalls == 3

Err(msg) == [kind |-> "Err", msg |-> msg]

ReverseSeq(seq) == [i \in 1..Len(seq) |-> seq[Len(seq) + 1 - i]]

Front(seq) == SubSeq(seq, 1, Len(seq) - 1)

\* Logical expressions handed to the physical planner: a literal, a column
\* reference (uncorrelated) and a subquery (not convertible).
ScalarLiteral(type, value) == [kind |-> "Literal", type |-> type, value |-> value]
ColumnRef(column) == [kind |-> "Column", column |-> column]
Subquery == [kind |-> "Subquery"]

\* PhysicalScalarExpression::try_from_uncorrelated_expr
try_from_uncorrelated_expr(expr) ==
  IF expr.kind = "Subquery"
    THEN Err("Cannot convert expression to a physical expression")
    ELSE [kind |-> "Ok", expr |-> expr]

\* DataBatch: its columns, each an array of one type, and its row count.
DataBatch(cols, num_rows) == [cols |-> cols, num_rows |-> num_rows]

\* DataBatch::empty_with_num_rows
empty_with_num_rows(num_rows) == DataBatch(<<>>, num_rows)

\* PhysicalScalarExpression::eval against a batch: a literal gives an array
\* with one element per row of the batch, a column reference gives the column
\* of the batch and fails when the batch has no such column.
eval(expr, batch) ==
  IF expr.kind = "Literal"
    THEN [kind |-> "Ok",
          array |-> [type |-> expr.type,
                     values |-> [i \in 1..batch.num_rows |-> expr.value]]]
    ELSE IF expr.column + 1 \in DOMAIN batch.cols
      THEN [kind |-> "Ok", array |-> batch.cols[expr.column + 1]]
      ELSE Err("Column index out of range")

\* .map(try_from_uncorrelated_expr).collect::<Result<Vec<_>>>(): the physical
\* expressions, or the first error.
RECURSIVE ConvertAll(_)
ConvertAll(exprs) ==
  IF exprs = <<>> THEN [kind |-> "Ok", exprs |-> <<>>]
  ELSE LET first == try_from_uncorrelated_expr(Head(exprs)) IN
       IF first.kind # "Ok" THEN first
       ELSE LET rest == ConvertAll(Tail(exprs)) IN
            IF rest.kind # "Ok" THEN rest
            ELSE [kind |-> "Ok", exprs |-> <<first.expr>> \o rest.exprs]

\* .map(|expr| expr.eval(&dummy_batch)).collect::<Result<Vec<_>>>() on the
\* expressions of row `row`, from expression j on: the arrays or the first
\* error, and the evaluations made, as <<row, position>> pairs.
RECURSIVE EvalAll(_, _, _, _)
EvalAll(exprs, batch, row, j) ==
  IF j > Len(exprs) THEN [kind |-> "Ok", arrs |-> <<>>, evals |-> <<>>]
  ELSE LET first == eval(exprs[j], batch) IN
       IF first.kind # "Ok"
         THEN [kind |-> "Err", msg |-> first.msg, evals |-> <<<<row, j>>>>]
       ELSE LET rest == EvalAll(exprs, batch, row, j + 1) IN
            IF rest.kind # "Ok"
              THEN [rest EXCEPT !.evals = <<<<row, j>>>> \o @]
              ELSE [kind |-> "Ok",
                    arrs |-> <<first.array>> \o rest.arrs,
                    evals |-> <<<<row, j>>>> \o rest.evals]

\* The loop over values.rows of plan_values, from row i on: row_arrs, the
\* row-oriented arrays of one element each, or the first error.
RECURSIVE RowArrs(_, _, _)
RowArrs(rows, batch, i) ==
  IF i > Len(rows) THEN [kind |-> "Ok", row_arrs |-> <<>>, evals |-> <<>>]
  ELSE LET exprs == ConvertAll(rows[i]) IN
       IF exprs.kind # "Ok"
         THEN [kind |-> "Err", msg |-> exprs.msg, evals |-> <<>>]
       ELSE LET arrs == EvalAll(exprs.exprs, batch, i, 1) IN
            IF arrs.kind # "Ok" THEN arrs
            ELSE LET rest == RowArrs(rows, batch, i + 1) IN
                 IF rest.kind # "Ok"
                   THEN [rest EXCEPT !.evals = arrs.evals \o @]
                   ELSE [kind |-> "Ok",
                         row_arrs |-> <<arrs.arrs>> \o rest.row_arrs,
                         evals |-> arrs.evals \o rest.evals]

\* The loop `for _ in 0..num_cols` of plan_values: each round pops the last
\* array of every row; row.pop().unwrap() panics on a row that is used up.
RECURSIVE PopColumns(_, _)
PopColumns(row_arrs, num_cols) ==
  IF num_cols = 0 THEN [kind |-> "Ok", col_arrs |-> <<>>]
  ELSE IF \E i \in DOMAIN row_arrs : row_arrs[i] = <<>>
    THEN Panic("called Option::unwrap() on a None value")
    ELSE LET cols == [i \in DOMAIN row_arrs |-> row_arrs[i][Len(row_arrs[i])]]
             rest == PopColumns([i \in DOMAIN row_arrs |-> Front(row_arrs[i])],
                                num_cols - 1)
         IN IF rest.kind # "Ok" THEN rest
            ELSE [kind |-> "Ok", col_arrs |-> <<cols>> \o rest.col_arrs]

RECURSIVE ConcatValues(_)
ConcatValues(arrs) ==
  IF arrs = <<>> THEN <<>> ELSE Head(arrs).values \o ConcatValues(Tail(arrs))

\* arrow::compute::concat: one array holding the values of the arrays in order;
\* an error when there is no array or when the arrays differ in type.
concat(arrs) ==
  IF arrs = <<>> THEN Err("concat requires input of at least one array")
  ELSE IF \E i \in DOMAIN arrs : arrs[i].type # arrs[1].type
    THEN Err("It is not possible to concatenate arrays of different data types.")
    ELSE [kind |-> "Ok",
          array |-> [type |-> arrs[1].type, values |-> ConcatValues(arrs)]]

\* The loop `for arrs in col_arrs` of plan_values.
RECURSIVE ConcatColumns(_)
ConcatColumns(col_arrs) ==
  IF col_arrs = <<>> THEN [kind |-> "Ok", cols |-> <<>>]
  ELSE LET col == concat(Head(col_arrs)) IN
       IF col.kind # "Ok" THEN col
       ELSE LET rest == ConcatColumns(Tail(col_arrs)) IN
            IF rest.kind # "Ok" THEN rest
            ELSE [kind |-> "Ok", cols |-> <<col.array>> \o rest.cols]

\* DataBatch::try_new: the columns must have one length, the row count.
DataBatch_try_new(cols) ==
  IF \E i \in DOMAIN cols : Len(cols[i].values) # Len(cols[1].values)
    THEN Err("Columns must all have the same length")
    ELSE [kind |-> "Ok",
          batch |-> DataBatch(cols, IF cols = <<>> THEN 0 ELSE Len(cols[1].values))]

EmptySource == [kind |-> "EmptySource"]
PhysicalValues(batch) == [kind |-> "PhysicalValues", batch |-> batch]
PhysicalProjection(exprs) == [kind |-> "PhysicalProjection", exprs |-> exprs]
PhysicalFilter(predicate) == [kind |-> "PhysicalFilter", predicate |-> predicate]

SourceAlreadySet == Err("Expected source to be None")

\* A PipelineBuilder, and the outcome of a call on one: the builder after the
\* call, the value returned (Ok, an error, or a panic) and the expression
\* evaluations the call made.
PipelineBuilder(src, ops, chains) ==
  [source |-> src, operators |-> ops, completed_chains |-> chains]

Outcome(self, result, evals) == [self |-> self, result |-> result, evals |-> evals]

\* PipelineBuilder::walk_plan: unimplemented!().
PipelineBuilder_walk_plan(self, plan) ==
  Outcome(self, Panic("not implemented"), <<>>)

\* Mutant: the check of the source is left out, a second call replaces it.
PipelineBuilder_plan_empty_unchecked(self) ==
  Outcome([self EXCEPT !.source = Some(EmptySource)], Ok, <<>>)

\* PipelineBuilder::plan_empty
PipelineBuilder_plan_empty(self) ==
  IF self.source # None THEN Outcome(self, SourceAlreadySet, <<>>)
  ELSE Outcome([self EXCEPT !.source = Some(EmptySource)], Ok, <<>>)

\* Mutant: the column-oriented vector is not reversed after the pops.
PipelineBuilder_plan_values_not_reversed(self, values) ==
  IF self.source # None THEN Outcome(self, SourceAlreadySet, <<>>)
  ELSE
    LET rows == RowArrs(values.rows, empty_with_num_rows(1), 1) IN
    IF rows.kind # "Ok" THEN Outcome(self, Err(rows.msg), rows.evals)
    ELSE
      LET num_cols == IF rows.row_arrs = <<>> THEN 0 ELSE Len(rows.row_arrs[1])
          popped == PopColumns(rows.row_arrs, num_cols)
      IN
      IF popped.kind # "Ok" THEN Outcome(self, popped, rows.evals)
      ELSE
        LET cols == ConcatColumns(popped.col_arrs) IN
        IF cols.kind # "Ok" THEN Outcome(self, cols, rows.evals)
        ELSE
          LET batch == DataBatch_try_new(cols.cols) IN
          IF batch.kind # "Ok" THEN Outcome(self, batch, rows.evals)
          ELSE Outcome([self EXCEPT !.source = Some(PhysicalValues(batch.batch))],
                       Ok, rows.evals)

\* PipelineBuilder::plan_values
PipelineBuilder_plan_values(self, values) ==
  IF self.source # None THEN Outcome(self, SourceAlreadySet, <<>>)
  ELSE
    LET rows == RowArrs(values.rows, empty_with_num_rows(1), 1) IN
    IF rows.kind # "Ok" THEN Outcome(self, Err(rows.msg), rows.evals)
    ELSE
      LET num_cols == IF rows.row_arrs = <<>> THEN 0 ELSE Len(rows.row_arrs[1])
          popped == PopColumns(rows.row_arrs, num_cols)
      IN
      IF popped.kind # "Ok" THEN Outcome(self, popped, rows.evals)
      ELSE
        LET cols == ConcatColumns(ReverseSeq(popped.col_arrs)) IN
        IF cols.kind # "Ok" THEN Outcome(self, cols, rows.evals)
        ELSE
          LET batch == DataBatch_try_new(cols.cols) IN
          IF batch.kind # "Ok" THEN Outcome(self, batch, rows.evals)
          ELSE Outcome([self EXCEPT !.source = Some(PhysicalValues(batch.batch))],
                       Ok, rows.evals)

\* PipelineBuilder::plan_projection: the projections are converted, the child
\* is walked, then the operator is pushed.
PipelineBuilder_plan_projection(self, proj) ==
  LET projections == ConvertAll(proj.exprs) IN
  IF projections.kind # "Ok" THEN Outcome(self, projections, <<>>)
  ELSE
    LET operator == PhysicalProjection(projections.exprs)
        walked == PipelineBuilder_walk_plan(self, proj.input)
    IN
    IF walked.result # Ok THEN walked
    ELSE Outcome([walked.self EXCEPT !.operators = Append(@, operator)], Ok,
                 walked.evals)

\* PipelineBuilder::plan_filter: the predicate is converted, the child is
\* walked, then the operator is pushed.
PipelineBuilder_plan_filter(self, filter) ==
  LET predicate == try_from_uncorrelated_expr(filter.predicate) IN
  IF predicate.kind # "Ok" THEN Outcome(self, predicate, <<>>)
  ELSE
    LET operator == PhysicalFilter(predicate.expr)
        walked == PipelineBuilder_walk_plan(self, filter.input)
    IN
    IF walked.result # Ok THEN walked
    ELSE Outcome([walked.self EXCEPT !.operators = Append(@, operator)], Ok,
                 walked.evals)

(***************************************************************************)
(* Calls on a PipelineBuilder                                              *)
(***************************************************************************)

\* Logical operators handed to the physical planner.
Empty == [kind |-> "Empty"]
ExpressionList(rows) == [kind |-> "ExpressionList", rows |-> rows]
Projection(exprs, input) == [kind |-> "Projection", exprs |-> exprs, input |-> input]
Filter(predicate, input) == [kind |-> "Filter", predicate |-> predicate, input |-> input]

PhysTypes == {"Int32", "Utf8"}

\* The k-th literal of a type.
LiteralOf(type, k) ==
  ScalarLiteral(type,
                IF type = "Int32" THEN (IF k = 1 THEN "1" ELSE "2")
                                  ELSE (IF k = 1 THEN "a" ELSE "b"))

\* VALUES lists of n rows and m literal expressions each, every column of one
\* type: VALUES (1,'a'),(2,'b') is one of them.
RegularValues ==
  UNION {
    {ExpressionList([i \in 1..n |-> [j \in 1..m |-> LiteralOf(types[j], ks[i])]]) :
       types \in [1..m -> PhysTypes], ks \in [1..n -> 1..2]} :
    n \in 0..MaxValuesRows, m \in 0..MaxValuesCols}

\* VALUES lists with a column of two types, with rows of unequal length, and
\* with an expression that cannot be converted or cannot be evaluated.
IrregularValues ==
  { ExpressionList(<<<<LiteralOf("Int32", 1)>>, <<LiteralOf("Utf8", 1)>>>>),
    ExpressionList(<<<<LiteralOf("Int32", 1), LiteralOf("Utf8", 1)>>,
                     <<LiteralOf("Int32", 2)>>>>),
    ExpressionList(<<<<LiteralOf("Int32", 1)>>,
                     <<LiteralOf("Utf8", 2), LiteralOf("Int32", 2)>>>>),
    ExpressionList(<<<<LiteralOf("Int32", 1), Subquery>>>>),
    ExpressionList(<<<<LiteralOf("Int32", 1)>>, <<Subquery>>>>),
    ExpressionList(<<<<LiteralOf("Int32", 1), ColumnRef(0)>>>>) }

ValuesSample == RegularValues \cup IrregularValues

\* VALUES (1,'a'),(2,'b')
ExampleValues ==
  ExpressionList(<<<<LiteralOf("Int32", 1), LiteralOf("Utf8", 1)>>,
                   <<LiteralOf("Int32", 2), LiteralOf("Utf8", 2)>>>>)

\* The lists handed to plan_values: any list of the sample while the chain has
\* no source, fewer once it has one (the call does not look at the list then).
ValuesFor(src) ==
  IF src = None THEN ValuesSample ELSE IrregularValues \cup {ExampleValues}

PhysLeaves == {Empty, ExpressionList(<<<<LiteralOf("Int32", 1)>>>>)}

ProjectionExprs ==
  { <<LiteralOf("Int32", 1)>>, <<Subquery>>, <<LiteralOf("Int32", 1), Subquery>> }

FilterPredicates == {LiteralOf("Int32", 1), Subquery}

\* Projections and filters over a leaf, and over one of those.
PhysStacks1 ==
  {Projection(e, l) : e \in ProjectionExprs, l \in PhysLeaves}
    \cup {Filter(f, l) : f \in FilterPredicates, l \in PhysLeaves}

PhysStacks2 ==
  {Projection(e, c) : e \in ProjectionExprs, c \in PhysStacks1}
    \cup {Filter(f, c) : f \in FilterPredicates, c \in PhysStacks1}

PhysStacks == PhysStacks1 \cup PhysStacks2

\* The builder held in the variables.
Builder == PipelineBuilder(source, operators, completed_chains)

\* A call ends with the builder as the outcome leaves it.
Called(op, arg, outcome) ==
  /\ pb_calls < MaxCalls
  /\ pb_last # None => pb_last.result.kind # "Panic"
  /\ source' = outcome.self.source
  /\ operators' = outcome.self.operators
  /\ completed_chains' = outcome.self.completed_chains
  /\ pb_last' = [op |-> op, arg |-> arg, result |-> outcome.result,
                 evals |-> outcome.evals]
  /\ pb_calls' = pb_calls + 1

PlanEmpty == Called("plan_empty", Empty, PipelineBuilder_plan_empty(Builder))

PlanValues(values) ==
  Called("plan_values", values, PipelineBuilder_plan_values(Builder, values))

PlanProjection(proj) ==
  Called("plan_projection", proj, PipelineBuilder_plan_projection(Builder, proj))

PlanFilter(filter) ==
  Called("plan_filter", filter, PipelineBuilder_plan_filter(Builder, filter))

InitPhys ==
  /\ source = None
  /\ operators = <<>>
  /\ completed_chains = <<>>
  /\ pb_last = None
  /\ pb_calls = 0
  /\ DbIdle /\ RemIdle /\ FlipIdle /\ PlanIdle /\ NodeIdle
  /\ ProtoIdle /\ ColIdle

NextPhys ==
  \/ PlanEmpty /\ UNCHANGED <<db_vars, rem_vars, flip_vars, plan_vars, node_vars,
                              proto_vars, col_vars>>
  \/ \E values \in ValuesFor(source) :
       PlanValues(values) /\ UNCHANGED <<db_vars, rem_vars, flip_vars, plan_vars,
                                         node_vars, proto_vars, col_vars>>
  \/ \E proj \in {p \in PhysStacks : p.kind = "Projection"} :
       PlanProjection(proj) /\ UNCHANGED <<db_vars, rem_vars, flip_vars, plan_vars,
                                           node_vars, proto_vars, col_vars>>
  \/ \E filter \in {p \in PhysStacks : p.kind = "Filter"} :
       PlanFilter(filter) /\ UNCHANGED <<db_vars, rem_vars, flip_vars, plan_vars,
                                         node_vars, proto_vars, col_vars>>

SpecPhys == InitPhys /\ [][NextPhys]_vars

\* A step that is a call of `op` on the builder.
IsCall(op) == pb_calls' = pb_calls + 1 /\ pb_last'.op = op

\* A VALUES list of n >= 1 rows of m >= 1 literal expressions each, the
\* literals of a column being of one type.
IsRegularValues(values) ==
  /\ Len(values.rows) >= 1
  /\ Len(values.rows[1]) >= 1
  /\ \A i \in DOMAIN values.rows :
       /\ Len(values.rows[i]) = Len(values.rows[1])
       /\ \A j \in DOMAIN values.rows[i] :
            /\ values.rows[i][j].kind = "Literal"
            /\ values.rows[i][j].type = values.rows[1][j].type

\* C14: plan_values on a builder without a source, for a VALUES list of n >= 1
\* rows of m >= 1 expressions each, evaluates every expression exactly once
\* and sets the source to one batch of m columns and n rows in which column j,
\* row i holds the value of rows[i][j].
C14_ValuesBatchKeepsRowAndColumnOrder ==
  [][ (IsCall("plan_values") /\ source = None /\ IsRegularValues(pb_last'.arg)) =>
        LET rows == pb_last'.arg.rows
            n == Len(rows)
            m == Len(rows[1])
            evals == pb_last'.evals
        IN /\ pb_last'.result = Ok
           /\ Len(evals) = n * m
           /\ \A i \in 1..n : \A j \in 1..m :
                Cardinality({k \in DOMAIN evals : evals[k] = <<i, j>>}) = 1
           /\ source'.kind = "Some"
           /\ source'.value.kind = "PhysicalValues"
           /\ LET batch == source'.value.batch IN
              /\ Len(batch.cols) = m
              /\ batch.num_rows = n
              /\ \A j \in 1..m :
                   /\ Len(batch.cols[j].values) = n
                   /\ batch.cols[j].type = rows[1][j].type
                   /\ \A i \in 1..n : batch.cols[j].values[i] = rows[i][j].value
    ]_vars

\* VALUES (1,'a'),(2,'b') lowered on a new builder: c0 = [1,2], c1 = ['a','b'].
C14_Witness ==
  /\ pb_calls = 1
  /\ pb_last.op = "plan_values"
  /\ pb_last.arg = ExampleValues
  /\ pb_last.result = Ok
  /\ source = Some(PhysicalValues(DataBatch(
                <<[type |-> "Int32", values |-> <<"1", "2">>],
                  [type |-> "Utf8", values |-> <<"a", "b">>]>>, 2)))

\* C19: a plan_empty or plan_values call made while the source is set returns
\* the error "Expected source to be None", evaluates no expression and leaves
\* source, operators and completed_chains as they were, so the source of a
\* chain is set at most once; a plan_empty call made while the source is None
\* sets it.
C19_SourceSetAtMostOnce ==
  [][ (IsCall("plan_empty") \/ IsCall("plan_values")) =>
        /\ source # None =>
             /\ pb_last'.result = SourceAlreadySet
             /\ pb_last'.evals = <<>>
             /\ source' = source
             /\ operators' = operators
             /\ completed_chains' = completed_chains
        /\ (source = None /\ pb_last'.op = "plan_empty") =>
             /\ pb_last'.result = Ok
             /\ source' = Some(EmptySource)
    ]_vars

\* plan_empty, then plan_values of VALUES (1,'a'),(2,'b'): the second call is
\* rejected and the source is still the empty source.
C19_Witness ==
  /\ pb_calls = 2
  /\ pb_last.op = "plan_values"
  /\ pb_last.arg = ExampleValues
  /\ pb_last.result = SourceAlreadySet
  /\ source = Some(EmptySource)

\* The expressions of the top node of a stack convert to physical expressions.
TopConverts(plan) ==
  IF plan.kind = "Projection" THEN ConvertAll(plan.exprs).kind = "Ok"
  ELSE try_from_uncorrelated_expr(plan.predicate).kind = "Ok"

\* The expressions of every Projection and Filter of a stack convert.
RECURSIVE StackConverts(_)
StackConverts(plan) ==
  IF plan.kind \in {"Projection", "Filter"}
    THEN TopConverts(plan) /\ StackConverts(plan.input)
    ELSE TRUE

\* The physical operators of a stack, the innermost node first.
RECURSIVE StackOperators(_)
StackOperators(plan) ==
  IF plan.kind = "Projection"
    THEN Append(StackOperators(plan.input),
                PhysicalProjection(ConvertAll(plan.exprs).exprs))
  ELSE IF plan.kind = "Filter"
    THEN Append(StackOperators(plan.input),
                PhysicalFilter(try_from_uncorrelated_expr(plan.predicate).expr))
  ELSE <<>>

\* C20: lowering a stack of Projection/Filter nodes over a leaf whose
\* expressions convert succeeds and appends one physical operator per node to
\* `operators`, the operators of the child before the operator of its parent;
\* when the expression of the top node does not convert, the call returns the
\* error and adds no operator and no source.
C20_OneOperatorPerNodeLeafToRoot ==
  [][ (IsCall("plan_projection") \/ IsCall("plan_filter")) =>
        /\ (source = None /\ StackConverts(pb_last'.arg)) =>
             /\ pb_last'.result = Ok
             /\ operators' = operators \o StackOperators(pb_last'.arg)
        /\ ~TopConverts(pb_last'.arg) =>
             /\ pb_last'.result.kind = "Err"
             /\ source' = source
             /\ operators' = operators
             /\ completed_chains' = completed_chains
    ]_vars

(***************************************************************************)
(* Wire conversions (logical/binder/bound_table.rs,                        *)
(* logical/resolver/resolved_copy_to.rs)                                   *)
(***************************************************************************)

\* Largest CTE index on the wire in the sample of messages.
MaxCteIdx == 1

\* OptionExt::required: the value of a Some, an error with the given message
\* for a None.
required(opt, msg) ==
  IF opt.kind = "Some" THEN [kind |-> "Ok", value |-> opt.value] ELSE Err(msg)

\* ast::ObjectReference: a list of identifiers.
Ident(value, quoted) == [value |-> value, quoted |-> quoted]
ObjectReference_from_strings(strings) ==
  [i \in DOMAIN strings |-> Ident(strings[i], FALSE)]

\* ProtoConv for ast::ObjectReference: the wire message holds the identifiers.
ObjectReference_to_proto(self) ==
  [kind |-> "Ok",
   value |-> [idents |-> [i \in DOMAIN self |->
                            [ident_value |-> self[i].value,
                             ident_quoted |-> self[i].quoted]]]]

ObjectReference_from_proto(proto) ==
  [kind |-> "Ok",
   value |-> [i \in DOMAIN proto.idents |->
                Ident(proto.idents[i].ident_value, proto.idents[i].ident_quoted)]]

\* AttachInfo { datasource, options }: options maps a name to a scalar value.
AttachInfo(datasource, options) == [datasource |-> datasource, options |-> options]
OwnedScalarValue(type, value) == [type |-> type, value |-> value]

\* ProtoConv for AttachInfo: every option value becomes a wire scalar.
AttachInfo_to_proto(self) ==
  [kind |-> "Ok",
   value |-> [datasource |-> self.datasource,
              options |-> [k \in DOMAIN self.options |->
                             [scalar_variant |-> self.options[k].type,
                              scalar_value |-> self.options[k].value]]]]

AttachInfo_from_proto(proto) ==
  [kind |-> "Ok",
   value |-> AttachInfo(proto.datasource,
                        [k \in DOMAIN proto.options |->
                           OwnedScalarValue(proto.options[k].scalar_variant,
                                            proto.options[k].scalar_value)])]

\* UnboundTableReference { reference, catalog, attach_info }
UnboundTableReference(reference, catalog, attach_info) ==
  [type |-> "UnboundTableReference", reference |-> reference,
   catalog |-> catalog, attach_info |-> attach_info]

\* The wire message of an UnboundTableReference.
UnboundTableReferenceProto(reference, catalog, attach_info) ==
  [message |-> "UnboundTableReference", reference |-> reference,
   catalog |-> catalog, attach_info |-> attach_info]

\* ProtoConv::to_proto for UnboundTableReference
UnboundTableReference_to_proto(self) ==
  LET reference == ObjectReference_to_proto(self.reference)
      attach_info == IF self.attach_info.kind = "Some"
                       THEN AttachInfo_to_proto(self.attach_info.value)
                       ELSE [kind |-> "Ok", value |-> None]
  IN IF reference.kind # "Ok" THEN reference
     ELSE IF attach_info.kind # "Ok" THEN attach_info
     ELSE [kind |-> "Ok",
           value |-> UnboundTableReferenceProto(
                       Some(reference.value),
                       self.catalog,
                       IF self.attach_info.kind = "Some"
                         THEN Some(attach_info.value) ELSE None)]

\* Mutant: the attach info is not read from the message.
UnboundTableReference_from_proto_without_attach_info(proto) ==
  LET required_reference == required(proto.reference, "reference") IN
  IF required_reference.kind # "Ok" THEN required_reference
  ELSE LET reference == ObjectReference_from_proto(required_reference.value) IN
       IF reference.kind # "Ok" THEN reference
       ELSE [kind |-> "Ok",
             value |-> UnboundTableReference(reference.value, proto.catalog, None)]

\* Mutant: a message without a reference gives the empty reference.
UnboundTableReference_from_proto_reference_optional(proto) ==
  LET reference == IF proto.reference.kind = "Some"
                     THEN ObjectReference_from_proto(proto.reference.value)
                     ELSE [kind |-> "Ok", value |-> <<>>]
      attach_info == IF proto.attach_info.kind = "Some"
                       THEN AttachInfo_from_proto(proto.attach_info.value)
                       ELSE [kind |-> "Ok", value |-> None]
  IN [kind |-> "Ok",
      value |-> UnboundTableReference(
                  reference.value,
                  proto.catalog,
                  IF proto.attach_info.kind = "Some"
                    THEN Some(attach_info.value) ELSE None)]

\* ProtoConv::from_proto for UnboundTableReference
UnboundTableReference_from_proto(proto) ==
  LET required_reference == required(proto.reference, "reference") IN
  IF required_reference.kind # "Ok" THEN required_reference
  ELSE LET reference == ObjectReference_from_proto(required_reference.value)
           attach_info == IF proto.attach_info.kind = "Some"
                            THEN AttachInfo_from_proto(proto.attach_info.value)
                            ELSE [kind |-> "Ok", value |-> None]
       IN IF reference.kind # "Ok" THEN reference
          ELSE IF attach_info.kind # "Ok" THEN attach_info
          ELSE [kind |-> "Ok",
                value |-> UnboundTableReference(
                            reference.value,
                            proto.catalog,
                            IF proto.attach_info.kind = "Some"
                              THEN Some(attach_info.value) ELSE None)]

\* CatalogEntry::from_proto_ctx: the entry named by the message.
CatalogEntry_from_proto_ctx(proto, context) ==
  [kind |-> "Ok", value |-> [entry_name |-> proto.name]]

\* BoundTableOrCteReference::Table and ::Cte
BoundTable(catalog, schema, entry) ==
  [type |-> "BoundTableOrCteReference", variant |-> "Table",
   catalog |-> catalog, schema |-> schema, entry |-> entry]
BoundCte(cte_idx) ==
  [type |-> "BoundTableOrCteReference", variant |-> "Cte", cte_idx |-> cte_idx]

\* The wire messages of a BoundTableOrCteReference.
BoundTableOrCteReferenceProto(value) ==
  [message |-> "BoundTableOrCteReference", value |-> value]
BoundTableReferenceProto(catalog, schema, entry) ==
  [variant |-> "Table", catalog |-> catalog, schema |-> schema, entry |-> entry]
BoundCteReferenceProto(idx) == [variant |-> "Cte", idx |-> idx]

\* The wire index of a CTE is a u32 and CteIndex holds a usize; the model
\* keeps ModelU32Bits bits of the u32 and makes the usize twice as wide.
ModelU32Bits == 4
ModelUsizeBits == 2 * ModelU32Bits

\* 2^n
RECURSIVE Pow2(_)
Pow2(n) == IF n = 0 THEN 1 ELSE 2 * Pow2(n - 1)

\* `x as u32` of a usize: the low bits. `x as usize` of a u32: the value.
as_u32(x) == x % Pow2(ModelU32Bits)
as_usize(x) == x

\* CatalogEntry::to_proto_ctx: the message names the entry.
CatalogEntry_to_proto_ctx(self, context) ==
  [kind |-> "Ok", value |-> [name |-> self.entry_name]]

\* DatabaseProtoConv::to_proto_ctx for BoundTableOrCteReference
BoundTableOrCteReference_to_proto_ctx(self, context) ==
  IF self.variant = "Table"
    THEN LET entry == CatalogEntry_to_proto_ctx(self.entry, context) IN
         IF entry.kind # "Ok" THEN entry
         ELSE [kind |-> "Ok",
               value |-> BoundTableOrCteReferenceProto(
                           Some(BoundTableReferenceProto(self.catalog, self.schema,
                                                         Some(entry.value))))]
    ELSE [kind |-> "Ok",
          value |-> BoundTableOrCteReferenceProto(
                      Some(BoundCteReferenceProto(as_u32(self.cte_idx))))]

\* DatabaseProtoConv::from_proto_ctx for BoundTableOrCteReference
BoundTableOrCteReference_from_proto_ctx(proto, context) ==
  LET value == required(proto.value, "value") IN
  IF value.kind # "Ok" THEN value
  ELSE IF value.value.variant = "Table"
    THEN LET table == value.value
             required_entry == required(table.entry, "entry")
         IN IF required_entry.kind # "Ok" THEN required_entry
            ELSE LET entry == CatalogEntry_from_proto_ctx(required_entry.value,
                                                          context)
                 IN IF entry.kind # "Ok" THEN entry
                    ELSE [kind |-> "Ok",
                          value |-> BoundTable(table.catalog, table.schema,
                                               entry.value)]
    ELSE [kind |-> "Ok", value |-> BoundCte(as_usize(value.value.idx))]

\* The copy functions a context knows, and CopyToFunction's from_proto_ctx:
\* the function of the given name, an error when the context has none.
CopyToFunctions == {"parquet_copy_to"}
CopyToFunction_from_proto_ctx(proto, context) ==
  IF proto.name \in CopyToFunctions
    THEN [kind |-> "Ok", value |-> [function |-> proto.name]]
    ELSE Err("Missing copy to function")

ResolvedCopyTo(func) == [type |-> "ResolvedCopyTo", func |-> func]
ResolvedCopyToProto(func) == [message |-> "ResolvedCopyTo", func |-> func]

\* DatabaseProtoConv::from_proto_ctx for ResolvedCopyTo
ResolvedCopyTo_from_proto_ctx(proto, context) ==
  LET required_func == required(proto.func, "func") IN
  IF required_func.kind # "Ok" THEN required_func
  ELSE LET func == CopyToFunction_from_proto_ctx(required_func.value, context) IN
       IF func.kind # "Ok" THEN func
       ELSE [kind |-> "Ok", value |-> ResolvedCopyTo(func.value)]

\* from_proto / from_proto_ctx of the type the message belongs to.
from_proto(proto, context) ==
  CASE proto.message = "UnboundTableReference" ->
         UnboundTableReference_from_proto(proto)
    [] proto.message = "BoundTableOrCteReference" ->
         BoundTableOrCteReference_from_proto_ctx(proto, context)
    [] proto.message = "ResolvedCopyTo" ->
         ResolvedCopyTo_from_proto_ctx(proto, context)

\* to_proto / to_proto_ctx of the type of the value.
to_proto(value, context) ==
  CASE value.type = "UnboundTableReference" ->
         UnboundTableReference_to_proto(value)
    [] value.type = "BoundTableOrCteReference" ->
         BoundTableOrCteReference_to_proto_ctx(value, context)

\* The values and messages handed to the conversions.
ObjectReferences ==
  { ObjectReference_from_strings(<<"my", "table">>),
    ObjectReference_from_strings(<<"t">>),
    <<Ident("My Table", TRUE)>>,
    <<>> }

OptionMaps ==
  { <<>>,
    [k \in {"key"} |-> OwnedScalarValue("Float32", "3.5")],
    [k \in {"key", "region"} |->
       IF k = "key" THEN OwnedScalarValue("Float32", "3.5")
                    ELSE OwnedScalarValue("Utf8", "eu")] }

AttachInfos == {AttachInfo(d, o) : d \in {"snowbricks", ""}, o \in OptionMaps}

UnboundTableReferences ==
  {UnboundTableReference(r, c, a) :
     r \in ObjectReferences, c \in {"catalog", ""},
     a \in {None} \cup {Some(i) : i \in AttachInfos}}

\* Resolved tables, and CTE references of every usize index.
BoundTableOrCteReferences ==
  {BoundTable("catalog", sch, [entry_name |-> e]) :
     sch \in {"schema", ""}, e \in {"t1", "t2"}}
    \cup {BoundCte(i) : i \in 0..(Pow2(ModelUsizeBits) - 1)}

\* Messages as a peer may send them: every required field present or absent.
WireReferences == {None} \cup {Some(ObjectReference_to_proto(r).value) : r \in ObjectReferences}
WireAttachInfos ==
  {None, Some(AttachInfo_to_proto(AttachInfo("snowbricks", <<>>)).value)}
WireEntries == {None, Some([name |-> "t1"])}

WireMessages ==
  {UnboundTableReferenceProto(r, c, a) :
     r \in WireReferences, c \in {"catalog"}, a \in WireAttachInfos}
    \cup {BoundTableOrCteReferenceProto(None)}
    \cup {BoundTableOrCteReferenceProto(Some(BoundTableReferenceProto("catalog", "schema", e))) :
            e \in WireEntries}
    \cup {BoundTableOrCteReferenceProto(Some(BoundCteReferenceProto(i))) :
            i \in 0..MaxCteIdx}
    \cup {ResolvedCopyToProto(f) :
            f \in {None, Some([name |-> "parquet_copy_to"]), Some([name |-> "other"])}}

\* to_proto of a value: the message, or the error.
ToProto ==
  /\ proto_value # None
  /\ proto_msg = None
  /\ proto_msg' = to_proto(proto_value, catalogs)
  /\ UNCHANGED <<proto_value, proto_out>>

\* from_proto of a message that was produced or received.
FromProto ==
  /\ proto_msg # None
  /\ proto_msg.kind = "Ok"
  /\ proto_out = None
  /\ proto_out' = from_proto(proto_msg.value, catalogs)
  /\ UNCHANGED <<proto_value, proto_msg>>

InitProto ==
  /\ \/ /\ proto_value \in UnboundTableReferences \cup BoundTableOrCteReferences
        /\ proto_msg = None
     \/ /\ proto_value = None
        /\ proto_msg \in {[kind |-> "Ok", value |-> m] : m \in WireMessages}
  /\ proto_out = None
  /\ DbIdle /\ RemIdle /\ FlipIdle /\ PlanIdle /\ NodeIdle
  /\ PhysIdle /\ ColIdle

NextProto ==
  \/ ToProto /\ UNCHANGED <<db_vars, rem_vars, flip_vars, plan_vars, node_vars,
                            phys_vars, col_vars>>
  \/ FromProto /\ UNCHANGED <<db_vars, rem_vars, flip_vars, plan_vars, node_vars,
                              phys_vars, col_vars>>

SpecProto == InitProto /\ [][NextProto]_vars

\* C15: for every UnboundTableReference r, from_proto(to_proto(r)) succeeds and
\* equals r.
C15_UnboundTableReferenceRoundTrip ==
  (/\ proto_value # None
   /\ proto_value.type = "UnboundTableReference"
   /\ proto_out # None) =>
    /\ proto_msg.kind = "Ok"
    /\ proto_out.kind = "Ok"
    /\ proto_out.value = proto_value

\* The reference of the test roundtrip_unbound_table_reference after the round
\* trip.
C15_Witness ==
  /\ proto_value =
       UnboundTableReference(
         ObjectReference_from_strings(<<"my", "table">>),
         "catalog",
         Some(AttachInfo("snowbricks",
                         [k \in {"key"} |-> OwnedScalarValue("Float32", "3.5")])))
  /\ proto_msg # None
  /\ proto_out # None
  /\ proto_out.kind = "Ok"

\* The required field a received message lacks, "" when it lacks none.
MissingRequiredField(m) ==
  CASE m.message = "UnboundTableReference" ->
         IF m.reference = None THEN "reference" ELSE ""
    [] m.message = "BoundTableOrCteReference" ->
         IF m.value = None THEN "value"
         ELSE IF m.value.value.variant = "Table" /\ m.value.value.entry = None
           THEN "entry" ELSE ""
    [] m.message = "ResolvedCopyTo" ->
         IF m.func = None THEN "func" ELSE ""

\* C16: from_proto of a message that lacks a required field (reference of an
\* UnboundTableReference, value of a BoundTableOrCteReference, entry of its
\* Table variant, func of a ResolvedCopyTo) is an error that names the field
\* and carries no value; an UnboundTableReference message without attach_info
\* and with a reference deserializes, to attach_info None.
C16_MissingRequiredFieldFails ==
  (proto_value = None /\ proto_msg # None /\ proto_out # None) =>
    LET m == proto_msg.value IN
    /\ MissingRequiredField(m) # "" =>
         /\ proto_out.kind = "Err"
         /\ proto_out.msg = MissingRequiredField(m)
         /\ "value" \notin DOMAIN proto_out
    /\ (/\ m.message = "UnboundTableReference"
        /\ m.reference # None
        /\ m.attach_info = None) =>
         /\ proto_out.kind = "Ok"
         /\ proto_out.value.attach_info = None

\* A Table message without its entry was rejected with the error "entry".
C16_Witness ==
  /\ proto_value = None
  /\ proto_msg # None
  /\ proto_msg.value =
       BoundTableOrCteReferenceProto(
         Some(BoundTableReferenceProto("catalog", "schema", None)))
  /\ proto_out = Err("entry")

(***************************************************************************)
(* The well-known catalogs of a DatabaseContext                            *)
(***************************************************************************)

\* C17: in every DatabaseContext reached from new_with_temp() by attach_catalog
\* and detach_catalog calls, "system" and "temp" are attached, so that
\* system_catalog() and get_catalog("temp") succeed.
C17_SystemAndTempAlwaysPresent ==
  /\ catalog_exists(catalogs, "system")
  /\ catalog_exists(catalogs, "temp")
  /\ system_catalog(catalogs).kind = "Ok"
  /\ get_catalog(catalogs, "temp").kind = "Ok"

(***************************************************************************)
(* ColumnExpr::datatype (expr/column_expr.rs)                              *)
(***************************************************************************)

\* ColumnExpr { table_scope, column }
ColumnExpr(table_scope, column) == [table_scope |-> table_scope, column |-> column]

\* BindContext::push_table: the descriptor is appended, its index is the ref.
push_table(tables, table) ==
  [tables |-> Append(tables, table), table_ref |-> Len(tables)]

\* The column expressions handed to datatype: refs and columns in and out of
\* range.
ColumnExprs ==
  {ColumnExpr(r, col) : r \in 0..MaxTables, col \in 0..MaxColumns}

PushTable(table) ==
  /\ Len(bind_context) < MaxTables
  /\ bind_context' = push_table(bind_context, table).tables
  /\ UNCHANGED <<query, planned, col_expr, col_out>>

Datatype(expr) ==
  /\ col_expr' = expr
  /\ col_out' = ColumnExpr_datatype(expr, bind_context)
  /\ UNCHANGED <<bind_context, query, planned>>

InitColumn ==
  /\ bind_context = <<>>
  /\ query = None
  /\ planned = None
  /\ col_expr = None
  /\ col_out = None
  /\ DbIdle /\ RemIdle /\ FlipIdle /\ NodeIdle
  /\ PhysIdle /\ ProtoIdle

NextColumn ==
  \/ \E table \in TableSample :
       PushTable(table) /\ UNCHANGED <<db_vars, rem_vars, flip_vars, node_vars,
                                       phys_vars, proto_vars>>
  \/ \E expr \in ColumnExprs :
       Datatype(expr) /\ UNCHANGED <<db_vars, rem_vars, flip_vars, node_vars,
                                     phys_vars, proto_vars>>

SpecColumn == InitColumn /\ [][NextColumn]_vars

\* A step that is a call of datatype.
IsDatatypeCall == col_out' # None /\ <<col_expr', col_out'>> # <<col_expr, col_out>>

\* C18: ColumnExpr{table_scope, column}.datatype(bind_context) returns the type
\* at position `column` of the descriptor pushed for `table_scope`, fails when
\* the bind context has no such table or when `column` is not below the
\* table's column count, and leaves the bind context as it is; pushing a table
\* leaves the descriptors pushed before as they are.
C18_DatatypeOfPushedDescriptor ==
  [][ /\ IsDatatypeCall =>
           LET ts == col_expr'.table_scope
               col == col_expr'.column
           IN /\ bind_context' = bind_context
              /\ IF ts >= Len(bind_context) THEN col_out'.kind = "Err"
                 ELSE IF col >= Len(bind_context[ts + 1].column_types)
                   THEN col_out'.kind = "Err"
                 ELSE /\ col_out'.kind = "Ok"
                      /\ col_out'.datatype = bind_context[ts + 1].column_types[col + 1]
      /\ \A r \in DOMAIN bind_context :
           r \in DOMAIN bind_context' /\ bind_context'[r] = bind_context[r]
    ]_vars

\* Column 0 of table 1, pushed second with the types (Utf8, Int32), is Utf8;
\* table 0 has the types (Int32, Int32).
C18_Witness ==
  /\ bind_context = <<TableOf(2, "Int32"), TableOf(2, "Utf8")>>
  /\ col_expr = ColumnExpr(1, 0)
  /\ col_out = [kind |-> "Ok", datatype |-> "Utf8"]

(***************************************************************************)
(* Frame of the catalog operations                                         *)
(***************************************************************************)

\* C21: a rejected attach_catalog(name, c) leaves the context as it is, the
\* catalog attached under `name` included; detach_catalog of a name that is
\* not attached returns the error and leaves the context as it is; a
\* successful attach adds `name` with c, a successful detach removes `name`,
\* and both leave every other entry as it is.
C21_FailedCallsChangeNothing ==
  [][ (db_hist' # db_hist /\ db_hist' # <<>>) =>
        LET call == db_hist'[Len(db_hist')]
            others == (DOMAIN catalogs \cup DOMAIN catalogs') \ {call.name}
        IN /\ call.result.kind = "Err" => catalogs' = catalogs
           /\ (call.op = "attach" /\ catalog_exists(catalogs, call.name)) =>
                /\ call.result.kind = "Err"
                /\ catalogs'[call.name] = catalogs[call.name]
           /\ (call.op = "detach" /\ ~catalog_exists(catalogs, call.name)) =>
                /\ call.result = DoesntExist(call.name)
                /\ DOMAIN catalogs' = DOMAIN catalogs
           /\ (call.op = "attach" /\ call.result = Ok) =>
                /\ ~catalog_exists(catalogs, call.name)
                /\ catalog_exists(catalogs', call.name)
                /\ catalogs'[call.name] = call.catalog
           /\ (call.op = "detach" /\ call.result = Ok) =>
                /\ catalog_exists(catalogs, call.name)
                /\ ~catalog_exists(catalogs', call.name)
           /\ \A n \in others :
                /\ catalog_exists(catalogs, n) <=> catalog_exists(catalogs', n)
                /\ catalog_exists(catalogs, n) => catalogs'[n] = catalogs[n]
    ]_vars

\* An attach of "system" with a user catalog was rejected and a detach of "x",
\* which is not attached, failed: "system" is still the system catalog and
\* nothing else was added or removed.
C21_Witness ==
  /\ Len(db_hist) = 2
  /\ db_hist[1].op = "attach"
  /\ db_hist[1].name = "system"
  /\ db_hist[1].catalog = Catalog("user", 1)
  /\ db_hist[1].result = AlreadyAttached("system")
  /\ db_hist[2].op = "detach"
  /\ db_hist[2].name = "x"
  /\ db_hist[2].result = DoesntExist("x")
  /\ catalogs["system"] = SystemCatalog
  /\ catalogs = new_with_temp

(***************************************************************************)
(* VALUES lists with rows of unequal length                                *)
(***************************************************************************)

\* Two rows of the list differ in their number of expressions.
HasUnequalRows(values) ==
  \E i, k \in DOMAIN values.rows : Len(values.rows[i]) # Len(values.rows[k])

\* C22: plan_values of a VALUES list in which two rows differ in length
\* returns an error, without a panic, and sets no source: no batch is built in
\* which a value sits in another column than its own or from which
\* expressions of a longer row are missing.
C22_UnequalRowsAreRejected ==
  [][ (IsCall("plan_values") /\ source = None /\ HasUnequalRows(pb_last'.arg)) =>
        /\ pb_last'.result.kind = "Err"
        /\ source' = None
    ]_vars

(***************************************************************************)
(* Round trip of a CTE reference                                           *)
(***************************************************************************)

\* C23: for every BoundTableOrCteReference::Cte{cte_idx}, whatever usize the
\* index is, from_proto_ctx(to_proto_ctx(x)) succeeds and equals x: the index
\* is the same after the round trip, also when it does not fit the u32 of the
\* wire.
C23_CteIndexRoundTrip ==
  (/\ proto_value # None
   /\ proto_value.type = "BoundTableOrCteReference"
   /\ proto_value.variant = "Cte"
   /\ proto_out # None) =>
    /\ proto_out.kind = "Ok"
    /\ proto_out.value = proto_value

====
